---- MODULE Spec2Model ----
(***************************************************************************)
(* Planning pipeline of the AI financial advisor                           *)
(* (src/ai_core/financial_advisor_graph.py), the market-data fan-out of    *)
(* the data collector (src/ai_core/financial_data.py), the forecast        *)
(* engine's error handling (src/ai_core/financial_forecaster.py) and the   *)
(* strategy engine's allocation (src/ai_core/investment_advisor.py).       *)
(*                                                                         *)
(* Conventions                                                             *)
(*  - a Python dict is a function with a domain of strings; {} is << >>.   *)
(*  - a Python f-string is the sequence of its pieces; it is the empty     *)
(*    string iff every piece is "" (Truthy).                               *)
(*  - an allocation weight is an integer number of thousandths; every     *)
(*    product the strategy engine forms is exact in thousandths.           *)
(*  - amounts of money that are inputs are whole dollars; a float the      *)
(*    forecast engine computes is an exact fraction until it is rounded.   *)
(*  - a date is a day number, and so is datetime.now().                    *)
(***************************************************************************)
EXTENDS Integers, Sequences, FiniteSets, TLC

VARIABLES
    pc,         \* position of get_financial_advice / the compiled workflow
    cpos,       \* position inside the collect_financial_data coroutine
    state,      \* the FinancialState threaded through the nodes
    portfolio,  \* user_portfolio local of collect_all_data
    pending,    \* indices of the per-symbol tasks gather still waits for
    results,    \* results[i]: what task i returned, for finished tasks
    fetched,    \* fetched[i]: what the two data sources did for task i
    collected,  \* collected_data once collect_all_data has returned
    envelope,   \* the dict get_financial_advice returns
    config,     \* ai_config as read by FinancialDataCollector.__init__
    trace,      \* the nodes the workflow has run, in order
    raised,     \* the nodes whose except branch ran, in order
    calls,      \* the collaborator invocations made so far, in order
    spc,        \* position of a get_investment_strategy request
    profile,    \* user_profile of that request
    strategy,   \* the dict get_investment_strategy returned
    now,        \* datetime.now(), in days
    fpc,        \* position of the caller of generate_forecast
    snapshot,   \* financial_data argument of generate_forecast
    history,    \* expenses argument of generate_forecast
    forecasts,  \* what the invocations of generate_forecast returned, in order
    apc,        \* position of an analyze_portfolio request
    portfolio_data, \* portfolio_data argument of analyze_portfolio
    analysis,   \* the dict analyze_portfolio returned
    tpc,        \* position of a _calculate_overall_trend call
    df,         \* the DataFrame of expense records it is given, row by row
    overall_trend \* the dict _calculate_overall_trend returned

pipevars == <<pc, cpos, state, portfolio, pending, results, fetched, collected,
              envelope, config, trace, raised, calls>>
stratvars == <<spc, profile, strategy>>
forecastvars == <<now, fpc, snapshot, history, forecasts>>
trendvars == <<tpc, df, overall_trend>>
analysisvars == <<apc, portfolio_data, analysis, trendvars>>
vars == <<pc, cpos, state, portfolio, pending, results, fetched, collected,
          envelope, config, trace, raised, calls, spc, profile, strategy,
          now, fpc, snapshot, history, forecasts,
          apc, portfolio_data, analysis, tpc, df, overall_trend>>

----------------------------------------------------------------------------
(* Bounds of the model *)

\* Longest symbol list a portfolio holds (the sample portfolio has 5).
MaxSymbols == 2

----------------------------------------------------------------------------
(* Python values *)

EmptyDict == << >>
EmptyStr == << >>

\* dict.update
Update(d1, d2) ==
    [k \in DOMAIN d1 \cup DOMAIN d2 |-> IF k \in DOMAIN d2 THEN d2[k] ELSE d1[k]]

\* dict.get(key, default)
Get(d, k, default) == IF k \in DOMAIN d THEN d[k] ELSE default

\* bool(s) of an f-string given as its pieces
Truthy(s) == \E i \in 1..Len(s) : s[i] # ""

\* None, and the test "is None" for a value of any type
None == "None"
IsNone(v) == ToString(v) = ToString(None)

\* abs(x) for a whole number
Abs(n) == IF n < 0 THEN 0 - n ELSE n

Min(a, b) == IF a <= b THEN a ELSE b
Max(a, b) == IF a >= b THEN a ELSE b

\* the set of elements of a sequence
Range(s) == {s[i] : i \in 1..Len(s)}

\* the element of a one-element set.  Only({e : x \in {v}}) is e with x
\* standing for v, and v is worked out once, as an assignment x = v does.
Only(S) == CHOOSE v \in S : TRUE

(* Python floats.  A float the code computes is kept as an exact fraction  *)
(* n/d (Rat) until the code rounds it; round(x, k) gives the integer       *)
(* x * 10^k, so a value rounded to 2 places is a number of hundredths      *)
(* (cents for money).  nan is the one value no comparison is true of.      *)

Rat(n, d) == [nan |-> FALSE, n |-> n, d |-> d]
Fixed(v) == [nan |-> FALSE, v |-> v]
NaNRat == [nan |-> TRUE, n |-> 0, d |-> 1]
NaN == [nan |-> TRUE, v |-> 0]

GCD[a \in Int, b \in Int] == IF b = 0 THEN a ELSE GCD[b, a % b]

Pow10(k) == CASE k = 0 -> 1 [] k = 1 -> 10 [] k = 2 -> 100
              [] k = 3 -> 1000 [] OTHER -> 10000

\* the first k decimal digits of r/d (0 <= r < d), after the digits q
\* already taken, and what is left
Digits[r \in Int, d \in Int, k \in Int, q \in Int] ==
    IF k = 0 THEN [q |-> q, r |-> r]
    ELSE Digits[(r * 10) % d, d, k - 1, q * 10 + (r * 10) \div d]

\* round(n/d, k) as an integer number of 10^-k, d > 0, by long division
RoundInt[n \in Int, d \in Int, k \in Int] ==
    LET dd == Digits[n % d, d, k, 0]
    IN  (n \div d) * Pow10(k) + dd.q + (IF 2 * dd.r >= d THEN 1 ELSE 0)

\* round(x, k)
round(x, k) == IF x.nan THEN NaN ELSE Fixed(RoundInt[x.n, x.d, k])

\* x > 0 for a float (False for nan)
Positive(x) == ~ x.nan /\ x.n > 0

\* the integer nearest to the square root of n (n >= 0)
SqrtSearch[n \in Int, lo \in Int, hi \in Int] ==
    IF lo >= hi THEN lo
    ELSE LET mid == (lo + hi + 1) \div 2
         IN  IF mid * mid <= n THEN SqrtSearch[n, mid, hi]
             ELSE SqrtSearch[n, lo, mid - 1]

Sqrt[n \in Int] ==
    Only({IF n - f * f > f THEN f + 1 ELSE f :
          f \in {SqrtSearch[n, 0, Min(n, 46340)]}})

SumSeq(s) ==
    LET upto[i \in 0..Len(s)] == IF i = 0 THEN 0 ELSE upto[i - 1] + s[i]
    IN  upto[Len(s)]

(* IEEE-754 doubles, for the sums and differences whose rounding decides a  *)
(* comparison.  A double is its sign and its magnitude in binary fixed      *)
(* point: Limbs digits of LimbBits bits each, the first IntBits bits of the *)
(* first digit before the point, so digit i counts units of                 *)
(* 2^(IntBits - LimbBits * i).  Every double of magnitude below 2^IntBits   *)
(* and at least 2^(IntBits + Precision - Limbs * LimbBits), and 0.0, is     *)
(* such a number; results are rounded to Precision significant bits, ties   *)
(* to even, as the hardware does.                                           *)

Precision == 53
IntBits == 3
LimbBits == 12
Limbs == 6
Base == 2^LimbBits

ZeroMag == [i \in 1..Limbs |-> 0]

Double(neg, mag) == [nan |-> FALSE, neg |-> neg /\ mag # ZeroMag, mag |-> mag]

\* a + b for two magnitudes (the sum stays below 2^IntBits)
AddMag(a, b) ==
    LET sum[i \in 0..Limbs, carry \in 0..1] ==
            IF i = 0 THEN << >>
            ELSE Append(sum[i - 1, (a[i] + b[i] + carry) \div Base],
                        (a[i] + b[i] + carry) % Base)
    IN  sum[Limbs, 0]

\* a - b for two magnitudes, a >= b
SubMag(a, b) ==
    LET diff[i \in 0..Limbs, borrow \in 0..1] ==
            IF i = 0 THEN << >>
            ELSE Append(diff[i - 1, IF a[i] - b[i] - borrow < 0 THEN 1 ELSE 0],
                        (a[i] - b[i] - borrow + Base) % Base)
    IN  diff[Limbs, 0]

\* a > b for two magnitudes
GreaterMag(a, b) ==
    \E i \in 1..Limbs :
        /\ a[i] > b[i]
        /\ \A j \in 1..(i - 1) : a[j] = b[j]

\* the number of bits of a digit v > 0
BitLength(v) == CHOOSE n \in 1..LimbBits : 2^(n - 1) <= v /\ v < 2^n

\* An exact magnitude, followed by a non-zero rest below the last digit
\* when sticky, rounded to Precision significant bits, ties to even.
RoundBound(mag, sticky) ==
    LET first == CHOOSE i \in 1..Limbs :
                     mag[i] # 0 /\ \A j \in 1..(i - 1) : mag[j] = 0
        \* the bits kept: the leading one and the Precision - 1 after it
        kept_bits == (first - 1) * LimbBits
                         + (LimbBits - BitLength(mag[first])) + Precision
        \* the digit that holds the first bit dropped, and how many of
        \* its low bits are dropped
        c == (kept_bits \div LimbBits) + 1
        k == LimbBits - (kept_bits % LimbBits)
        low == mag[c] % 2^k
        rest == sticky \/ \E j \in (c + 1)..Limbs : mag[j] # 0
        odd == IF k < LimbBits THEN (mag[c] \div 2^k) % 2 = 1
               ELSE mag[c - 1] % 2 = 1
        up == \/ low > 2^(k - 1)
              \/ low = 2^(k - 1) /\ (rest \/ odd)
        kept == [i \in 1..Limbs |->
                    IF i < c THEN mag[i]
                    ELSE IF i = c THEN mag[c] - low ELSE 0]
        unit == [i \in 1..Limbs |->
                    IF k < LimbBits /\ i = c THEN 2^k
                    ELSE IF k = LimbBits /\ i = c - 1 THEN 1 ELSE 0]
    IN  IF mag = ZeroMag \/ c > Limbs THEN mag
        ELSE IF up THEN AddMag(kept, unit) ELSE kept

RoundMag(mag, sticky) == Only({RoundBound(m, sticky) : m \in {mag}})

\* the digits of r / q * 2^(IntBits - LimbBits * (i - 1)) from digit i on,
\* appended to acc, and whether a rest is left after the last one
DivDigits[r \in Nat, q \in Nat, i \in Nat, acc \in Seq(Nat)] ==
    IF i > Limbs THEN [mag |-> acc, sticky |-> r # 0]
    ELSE DivDigits[(r % q) * Base, q, i + 1, Append(acc, r \div q)]

\* p / q for whole numbers, q # 0: the double nearest to the quotient.  A
\* decimal literal 0.05 is the double nearest to 5/100.
FDiv(p, q) ==
    LET P == IF p < 0 THEN 0 - p ELSE p
        Q == IF q < 0 THEN 0 - q ELSE q
    IN  Double((p < 0) # (q < 0),
               Only({RoundMag(d.mag, d.sticky) :
                     d \in {DivDigits[P * 2^(LimbBits - IntBits), Q, 1,
                                      << >>]}}))

\* x + y and x - y for doubles
FAddBound(x, y) ==
    IF x.neg = y.neg THEN Double(x.neg, RoundMag(AddMag(x.mag, y.mag), FALSE))
    ELSE IF GreaterMag(y.mag, x.mag)
    THEN Double(y.neg, RoundMag(SubMag(y.mag, x.mag), FALSE))
    ELSE Double(x.neg, RoundMag(SubMag(x.mag, y.mag), FALSE))

FAdd(x, y) == Only({FAddBound(a, b) : a \in {x}, b \in {y}})

FSub(x, y) == FAdd(x, Double(~ y.neg, y.mag))

\* abs(x) > y and x > 0 for doubles
FAbsGreater(x, y) == GreaterMag(x.mag, y.mag)

FPositive(x) == ~ x.neg /\ x.mag # ZeroMag

----------------------------------------------------------------------------
(* Inputs and collaborator outcomes *)

UserQueries == {"What stocks should I invest in?"}
UserIds == {"test_user_123"}

\* str(e) of an exception a collaborator raises; it may be empty
ExcMsgs == {"", "timeout"}

\* response.content of the narrative collaborator
Contents == {"narrative"}

LLMOutcomes ==
    [raises : {FALSE}, content : Contents, msg : {""}]
        \cup [raises : {TRUE}, content : {""}, msg : ExcMsgs]

SampleSymbols == <<"AAPL", "GOOGL", "MSFT", "TSLA", "SPY">>

\* What the portfolio store can hand back: the sample portfolio of the
\* source cut to at most MaxSymbols symbols, with or without holdings' value.
Portfolios ==
    {[symbols |-> SubSeq(SampleSymbols, 1, n),
      risk_tolerance |-> "moderate",
      investment_horizon |-> "10+ years",
      total_value |-> v] : n \in 0..MaxSymbols, v \in {0, 100000}}

\* datetime.now() when the process starts, as a day number
Today == 40

Expense(i, dollars, cat, day) ==
    [id |-> i, amount |-> dollars, category |-> cat, date |-> day]

\* What the expense store can hand back.
ExpenseLists ==
    { << >>,
      << Expense(1, 25, "Food & Dining", Today) >>,
      << Expense(1, 25, "Food & Dining", Today),
         Expense(2, 80, "Shopping", Today - 1) >> }

Configs == [yahoo_enabled : BOOLEAN, alpha_vantage_key : {"", "key"}]

\* Outcome of ticker.info / ticker.history inside _get_yahoo_data
YahooOutcomes == {"data", "empty", "error"}
\* Outcome of the four Alpha Vantage requests of _get_alpha_vantage_data
AlphaOutcomes == {"data", "error"}

----------------------------------------------------------------------------
(* FinancialDataCollector: src/ai_core/financial_data.py *)

\* _get_yahoo_data: a dict of metrics, {} when the history is empty, and an
\* error dict when yfinance raises.
_get_yahoo_data(symbol, y) ==
    CASE y = "data" ->
            [current_price |-> 100, price_change_pct |-> 1, volatility |-> 20]
      [] y = "empty" -> EmptyDict
      [] OTHER -> [error |-> <<"Yahoo Finance error: ", "no data">>]

\* _get_alpha_vantage_data: company overview fields, or an error dict.
_get_alpha_vantage_data(symbol, a) ==
    IF a = "data"
    THEN [company_name |-> symbol, sector |-> "Technology"]
    ELSE [error |-> <<"Alpha Vantage error: ", "rate limit">>]

\* _get_symbol_data: both sources catch their own exceptions, so the task
\* returns a dict and never raises; the result of a task is tagged so that
\* gather(return_exceptions=True) can carry an exception object.
_get_symbol_data(symbol, cfg, y, a) ==
    LET s0 == EmptyDict
        s1 == IF cfg.yahoo_enabled
              THEN Update(s0, _get_yahoo_data(symbol, y)) ELSE s0
        s2 == IF cfg.alpha_vantage_key # ""
              THEN Update(s1, _get_alpha_vantage_data(symbol, a)) ELSE s1
    IN  [is_exception |-> FALSE, value |-> s2, msg |-> ""]

\* The loop of _collect_market_data after the gather: one entry per symbol,
\* the task's dict, or {"error": str(exc)} for a task that raised.
_collect_market_data_drop_failed(symbols, res) ==
    [s \in {symbols[i] : i \in {j \in 1..Len(symbols) :
                                   "error" \notin DOMAIN res[j].value}} |->
        LET i == CHOOSE j \in 1..Len(symbols) : symbols[j] = s
        IN  res[i].value]

_collect_market_data(symbols, res) ==
    [s \in Range(symbols) |->
        \* a later index of the same symbol overwrites an earlier one
        LET i == CHOOSE j \in 1..Len(symbols) :
                    /\ symbols[j] = s
                    /\ \A k \in 1..Len(symbols) : symbols[k] = s => k <= j
        IN  IF res[i].is_exception
            THEN [error |-> <<res[i].msg>>]
            ELSE res[i].value]

\* await asyncio.gather(*tasks): resumes only when no task is outstanding.
GatherReady(pend, symbols) == pend = {}

\* _collect_economic_indicators: sample indicators when a key is configured.
_collect_economic_indicators(cfg) ==
    IF cfg.alpha_vantage_key # ""
    THEN [inflation_rate |-> 320, unemployment_rate |-> 380,
          gdp_growth |-> 210, federal_funds_rate |-> 525,
          market_sentiment |-> "neutral"]
    ELSE EmptyDict

\* _assess_risk_level on a volatility given as num/den in percent units
_assess_risk_level(num, den) ==
    IF num < 15 * den THEN "low"
    ELSE IF num < 25 * den THEN "moderate"
    ELSE IF num < 35 * den THEN "high"
    ELSE "very_high"

\* _calculate_risk_metrics: equal weights 1/len(market_data) over the symbols
\* that carry a volatility and no error; {} when there is none.
_calculate_risk_metrics(market_data) ==
    LET used == {s \in DOMAIN market_data :
                    /\ "volatility" \in DOMAIN market_data[s]
                    /\ "error" \notin DOMAIN market_data[s]}
        n == Cardinality(DOMAIN market_data)
        sectors == {market_data[s].sector : s \in
                       {t \in DOMAIN market_data :
                           /\ "sector" \in DOMAIN market_data[t]
                           /\ "error" \notin DOMAIN market_data[t]}}
        RECURSIVE Total(_)
        Total(S) == IF S = {} THEN 0
                    ELSE LET s == CHOOSE t \in S : TRUE
                         IN  market_data[s].volatility + Total(S \ {s})
    IN  IF used = {} THEN EmptyDict
        ELSE [portfolio_volatility |-> <<Total(used), n>>,
              var_95 |-> <<Total(used) * 165, n * 100>>,
              risk_level |-> _assess_risk_level(Total(used), n),
              diversification_score |-> <<Cardinality(sectors) * 100, n>>]

\* collect_all_data from the point where the market data is known.
collect_all_data(user_portfolio, market_data, cfg) ==
    [portfolio |-> user_portfolio,
     market_data |-> market_data,
     economic_indicators |-> _collect_economic_indicators(cfg),
     risk_metrics |-> _calculate_risk_metrics(market_data)]

----------------------------------------------------------------------------
(* FinancialForecaster: src/ai_core/financial_forecaster.py                *)
(* Here every section is either the dict of its per-horizon (or            *)
(* per-scenario) entries or the error dict its except branch returns.      *)

forecast_horizons == {30, 90, 180, 365}

HorizonKey(h) ==
    CASE h = 30 -> "30_days" [] h = 90 -> "90_days"
      [] h = 180 -> "180_days" [] OTHER -> "365_days"

HorizonKeys == {HorizonKey(h) : h \in forecast_horizons}

\* the horizon a key f"{horizon}_days" was made from
HorizonOf(k) == CHOOSE h \in forecast_horizons : HorizonKey(h) = k

ScenarioNames == {"baseline", "optimistic", "pessimistic"}

StressNames ==
    {"market_crash", "job_loss", "medical_emergency", "interest_rate_shock"}

\* x * (1 + (pct / 100) / 365 * horizon) for an exact fraction x
Grow(x, pct, horizon) ==
    IF x.nan THEN NaNRat
    ELSE LET g == GCD[horizon, 36500]
             D == 36500 \div g
         IN  Rat(x.n * (D + pct * (horizon \div g)), x.d * D)

\* _forecast_cash_flow.  t is the value datetime.now() returns: the
\* expenses counted are those dated t - 30 days or later.  An income that is
\* None makes current_income - current_expenses raise TypeError, and the
\* except branch returns the section's error dict.
_forecast_cash_flow_one_rate(financial_data, expenses, t) ==
    LET current_income == Get(financial_data, "monthly_income", 5000)
        Entry(current_expenses, horizon, projected_income,
              projected_expenses) ==
            LET current_cash_flow == current_income - current_expenses
                \* both fractions have the denominator 36500 / gcd
                projected_cash_flow ==
                    Rat(projected_income.n - projected_expenses.n,
                        projected_income.d)
                g == GCD[horizon, 30]
                cumulative_cash_flow ==
                    Rat(current_cash_flow * projected_cash_flow.d * (30 \div g)
                            + projected_cash_flow.n * (horizon \div g),
                        projected_cash_flow.d * (30 \div g))
            IN  [projected_income |-> round(projected_income, 2),
                 projected_expenses |-> round(projected_expenses, 2),
                 monthly_cash_flow |-> round(projected_cash_flow, 2),
                 cumulative_cash_flow |-> round(cumulative_cash_flow, 2),
                 cash_flow_ratio |->
                     IF Positive(projected_expenses)
                     THEN round(Rat(projected_cash_flow.n,
                                    projected_expenses.n), 2)
                     ELSE Fixed(0)]
        Entries(current_expenses) ==
            [k \in HorizonKeys |->
                Only({Entry(current_expenses, HorizonOf(k), projected_income,
                            projected_expenses) :
                      projected_income \in
                          {Grow(Rat(current_income, 1), 3, HorizonOf(k))},
                      projected_expenses \in
                          {Grow(Rat(current_expenses, 1), 3,
                                HorizonOf(k))}})]
    IN  IF IsNone(current_income)
        THEN [error |-> <<"Error forecasting cash flow: ",
                          "unsupported operand type(s) for -">>]
        ELSE Only({Entries(current_expenses) :
                   current_expenses \in
                       {SumSeq([i \in 1..Len(expenses) |->
                                   IF expenses[i].date >= t - 30
                                   THEN expenses[i].amount ELSE 0])}})

_forecast_cash_flow(financial_data, expenses, t) ==
    LET current_income == Get(financial_data, "monthly_income", 5000)
        Entry(current_expenses, horizon, projected_income,
              projected_expenses) ==
            LET current_cash_flow == current_income - current_expenses
                \* both fractions have the denominator 36500 / gcd
                projected_cash_flow ==
                    Rat(projected_income.n - projected_expenses.n,
                        projected_income.d)
                g == GCD[horizon, 30]
                cumulative_cash_flow ==
                    Rat(current_cash_flow * projected_cash_flow.d * (30 \div g)
                            + projected_cash_flow.n * (horizon \div g),
                        projected_cash_flow.d * (30 \div g))
            IN  [projected_income |-> round(projected_income, 2),
                 projected_expenses |-> round(projected_expenses, 2),
                 monthly_cash_flow |-> round(projected_cash_flow, 2),
                 cumulative_cash_flow |-> round(cumulative_cash_flow, 2),
                 cash_flow_ratio |->
                     IF Positive(projected_expenses)
                     THEN round(Rat(projected_cash_flow.n,
                                    projected_expenses.n), 2)
                     ELSE Fixed(0)]
        Entries(current_expenses) ==
            [k \in HorizonKeys |->
                Only({Entry(current_expenses, HorizonOf(k), projected_income,
                            projected_expenses) :
                      projected_income \in
                          {Grow(Rat(current_income, 1), 3, HorizonOf(k))},
                      projected_expenses \in
                          {Grow(Rat(current_expenses, 1), 2,
                                HorizonOf(k))}})]
    IN  IF IsNone(current_income)
        THEN [error |-> <<"Error forecasting cash flow: ",
                          "unsupported operand type(s) for -">>]
        ELSE Only({Entries(current_expenses) :
                   current_expenses \in
                       {SumSeq([i \in 1..Len(expenses) |->
                                   IF expenses[i].date >= t - 30
                                   THEN expenses[i].amount ELSE 0])}})

\* the order of self.forecast_horizons, which is the order of the keys of a
\* per-horizon section
HorizonOrder == <<30, 90, 180, 365>>

\* An amount _project_net_worth computes is kept exact as w + f/d, w and f
\* whole and 0 <= f < d; d is the same for all amounts of one horizon.
Mixed(n, d, D) == [w |-> n \div d, f |-> (n % d) * (D \div d), d |-> D]

MixedSum(a, b) ==
    [w |-> a.w + b.w + (a.f + b.f) \div a.d, f |-> (a.f + b.f) % a.d,
     d |-> a.d]

MixedNeg(a) ==
    IF a.f = 0 THEN [a EXCEPT !.w = 0 - a.w]
    ELSE [a EXCEPT !.w = 0 - a.w - 1, !.f = a.d - a.f]

\* round(x, 2), in hundredths
MixedRound(a) == Fixed(a.w * 100 + RoundInt[a.f, a.d, 2])

\* x * (1 + (pct / 100) / 365 * horizon) for a whole number x
Scale(x, pct, horizon, D) ==
    LET g == GCD[36500, Abs(pct) * horizon]
    IN  Mixed(x * ((36500 + pct * horizon) \div g), 36500 \div g, D)

\* round(((projected_net_worth / current_net_worth) - 1) * 100, 2), from
\* change = projected_net_worth - current_net_worth
GrowthRate(change, current_net_worth) ==
    LET whole == change.w * 10000
        rest == (whole % current_net_worth) * change.d + change.f * 10000
        unit == change.d * current_net_worth
    IN  Fixed(whole \div current_net_worth + rest \div unit
                + (IF 2 * (rest % unit) >= unit THEN 1 ELSE 0))

\* _project_net_worth: reads the cash-flow entries with .get defaults, so a
\* cash-flow section that is an error dict contributes 0; the growth-rate
\* division is guarded by current_net_worth > 0.  Assets that are None make
\* current_assets - current_liabilities raise TypeError, and the except
\* branch returns the section's error dict.
_project_net_worth(financial_data, cash_flow_forecast) ==
    LET current_assets == Get(financial_data, "total_assets", 100000)
        current_liabilities == Get(financial_data, "total_liabilities", 25000)
        portfolio_value ==
            Get(Get(financial_data, "portfolio", EmptyDict),
                "total_value", 50000)
        Entry(current_net_worth, projected_portfolio, projected_liabilities,
              projected_assets, projected_net_worth, change) ==
            [projected_assets |-> MixedRound(projected_assets),
             projected_portfolio |-> MixedRound(projected_portfolio),
             projected_liabilities |-> MixedRound(projected_liabilities),
             projected_net_worth |-> MixedRound(projected_net_worth),
             net_worth_change |-> MixedRound(change),
             growth_rate |->
                 IF current_net_worth > 0
                 THEN GrowthRate(change, current_net_worth)
                 ELSE Fixed(0)]
        \* projected_net_worth and its change, worked out once
        NetWorth(current_net_worth, projected_portfolio,
                 projected_liabilities, projected_assets) ==
            Only({Only({Entry(current_net_worth, projected_portfolio,
                              projected_liabilities, projected_assets,
                              projected_net_worth, change) :
                        change \in {[projected_net_worth EXCEPT
                                         !.w = @ - current_net_worth]}}) :
                  projected_net_worth \in
                      {MixedSum(projected_assets,
                                MixedNeg(projected_liabilities))}})
        \* projected_assets, worked out once
        Assets(current_net_worth, projected_portfolio, projected_liabilities,
               projected_other_assets) ==
            Only({NetWorth(current_net_worth, projected_portfolio,
                           projected_liabilities, projected_assets) :
                  projected_assets \in
                      {MixedSum(projected_portfolio,
                                projected_other_assets)}})
        Projection(horizon, D) ==
            LET monthly_cash_flow ==
                    Get(Get(cash_flow_forecast, HorizonKey(horizon),
                            EmptyDict),
                        "monthly_cash_flow", Fixed(0))
                g == GCD[3000, horizon]
                \* daily_contribution * horizon, the cash flow in hundredths
                cumulative_contributions ==
                    Mixed(monthly_cash_flow.v * (horizon \div g),
                          3000 \div g, D)
            IN  Only({Assets(current_net_worth, projected_portfolio,
                             IF liabilities.w < 0 THEN Mixed(0, 1, D)
                             ELSE liabilities,
                             projected_other_assets) :
                      current_net_worth \in
                          {current_assets - current_liabilities},
                      projected_portfolio \in
                          {MixedSum(Scale(portfolio_value, 8, horizon, D),
                                    cumulative_contributions)},
                      liabilities \in
                          {Scale(current_liabilities, 0 - 5, horizon, D)},
                      projected_other_assets \in
                          {Scale(current_assets - portfolio_value, 2,
                                 horizon, D)}})
    IN  IF IsNone(current_assets)
        THEN [error |-> <<"Error projecting net worth: ",
                          "unsupported operand type(s) for -">>]
        ELSE [k \in HorizonKeys |->
                 Projection(HorizonOf(k),
                            IF HorizonOf(k) = 365 THEN 600 ELSE 7300)]

\* df.groupby(df['date'].dt.date)['amount'].sum(): the totals of the days
\* that have an expense, in date order
SortedDays(S) ==
    [j \in 1..Cardinality(S) |->
        CHOOSE x \in S : Cardinality({y \in S : y < x}) = j - 1]

DailyTotals(expenses) ==
    Only({[j \in 1..Len(days) |->
              SumSeq([i \in 1..Len(expenses) |->
                         IF expenses[i].date = days[j]
                         THEN expenses[i].amount ELSE 0])] :
          days \in {SortedDays({expenses[i].date :
                                   i \in 1..Len(expenses)})}})

\* series.rolling(window).mean().iloc[-1]: the mean of the last window
\* values, nan while the series is shorter than the window
RollingMeanLast(series, window) ==
    LET n == Len(series)
    IN  IF n < window THEN NaNRat
        ELSE Rat(SumSeq(SubSeq(series, n - window + 1, n)), window)

\* series.mean()
Mean(series) == Rat(SumSeq(series), Len(series))

\* series.std() (sample standard deviation), in hundredths
Std(series) ==
    LET n == Len(series)
        s1 == SumSeq(series)
        s2 == SumSeq([i \in 1..n |-> series[i] * series[i]])
    IN  Sqrt[RoundInt[n * s2 - s1 * s1, n * (n - 1), 4]]

\* _forecast_expenses: the no-data marker for an empty history, else one
\* entry per horizon.  Margins and interval bounds, which the code leaves
\* unrounded, are kept to the nearest hundredth.
_forecast_expenses(expenses) ==
    IF expenses = << >>
    THEN [error |-> <<"No expense data available">>]
    ELSE
      LET Volatility(daily_expenses) ==
              IF Len(daily_expenses) > 1 THEN Std(daily_expenses) ELSE 0
          Entries(daily_expenses, expense_volatility) ==
              LET moving_avg_7d ==
                      IF Len(daily_expenses) >= 7
                      THEN RollingMeanLast(daily_expenses, 7)
                      ELSE Mean(daily_expenses)
                  moving_avg_30d ==
                      IF Len(daily_expenses) >= 7
                      THEN RollingMeanLast(daily_expenses, 30)
                      ELSE Mean(daily_expenses)
                  current_avg == moving_avg_30d
                  Entry(horizon, projected_daily_expense, root) ==
                      LET daily == round(projected_daily_expense, 2)
                          Bounds(margin_of_error) ==
                              IF daily.nan
                              THEN [lower |-> Fixed(0), upper |-> NaN]
                              ELSE [lower |->
                                        Fixed(Max(0, daily.v
                                                       - margin_of_error)),
                                    upper |->
                                        Fixed(daily.v + margin_of_error)]
                          Interval(z_score) ==
                              Only({Bounds(margin_of_error) :
                                    margin_of_error \in
                                        {RoundInt[z_score * expense_volatility
                                                    * 10, root, 0]}})
                      IN  [projected_daily_expense |-> daily,
                           projected_monthly_expense |->
                               IF projected_daily_expense.nan THEN NaN
                               ELSE round(Rat(projected_daily_expense.n * 30,
                                              projected_daily_expense.d), 2),
                           confidence_intervals |->
                               [c \in {"68%", "95%", "99%"} |->
                                   Interval(CASE c = "68%" -> 100
                                              [] c = "95%" -> 196
                                              [] OTHER -> 258)],
                           volatility |-> Fixed(expense_volatility)]
              IN  [k \in HorizonKeys |->
                      Only({Entry(HorizonOf(k), projected_daily_expense,
                                  root) :
                            projected_daily_expense \in
                                {Grow(current_avg, 2, HorizonOf(k))},
                            root \in {Sqrt[HorizonOf(k) * 1000000]}})]
      IN  Only({Only({Entries(daily_expenses, expense_volatility) :
                        expense_volatility \in {Volatility(daily_expenses)}}) :
                daily_expenses \in {DailyTotals(expenses)}})

\* self.economic_scenarios: the annual market return in hundredths, the
\* annual inflation rate in thousandths, the probability in tenths
economic_scenarios ==
    [baseline |-> [market_return |-> 8, inflation_rate |-> 25,
                   probability |-> 6],
     optimistic |-> [market_return |-> 12, inflation_rate |-> 20,
                     probability |-> 2],
     pessimistic |-> [market_return |-> 4, inflation_rate |-> 40,
                      probability |-> 2]]

\* one entry of _project_investment_returns, for a portfolio that is worth
\* something.  The annualized return is a fractional power, which is kept as
\* its base and its exponent.
ReturnEntry(current_portfolio_value, scenario_params, horizon) ==
    LET g == GCD[horizon, 365000]
        real_return ==
            Rat(current_portfolio_value * (horizon \div g)
                    * (scenario_params.market_return * 10
                         - scenario_params.inflation_rate),
                365000 \div g)
    IN  Only({[projected_value |-> round(projected_value, 2),
               total_return |->
                   round(Rat(projected_value.n
                                 - current_portfolio_value * projected_value.d,
                             projected_value.d), 2),
               annualized_return |->
                   [base |-> Rat(projected_value.n,
                                 projected_value.d * current_portfolio_value),
                    exponent |-> Rat(365, horizon)],
               real_return |-> round(real_return, 2),
               probability |-> scenario_params.probability] :
              projected_value \in
                  {Grow(Rat(current_portfolio_value, 1),
                        scenario_params.market_return, horizon)}})

\* _project_investment_returns: projected_value / current_portfolio_value
\* raises ZeroDivisionError for a portfolio worth 0, in the first scenario
\* and horizon; the except branch turns it into the section's error dict.
_project_investment_returns_guarded(financial_data) ==
    LET pf == Get(financial_data, "portfolio", EmptyDict)
        current_portfolio_value == Get(pf, "total_value", 50000)
    IN  IF current_portfolio_value = 0
        THEN [n \in ScenarioNames |->
                 [k \in HorizonKeys |->
                     [projected_value |-> Fixed(0), total_return |-> Fixed(0),
                      annualized_return |-> Fixed(0),
                      real_return |-> Fixed(0),
                      probability |-> economic_scenarios[n].probability]]]
        ELSE [n \in ScenarioNames |->
                 [k \in HorizonKeys |->
                     ReturnEntry(current_portfolio_value,
                                 economic_scenarios[n], HorizonOf(k))]]

_project_investment_returns(financial_data) ==
    LET pf == Get(financial_data, "portfolio", EmptyDict)
        current_portfolio_value == Get(pf, "total_value", 50000)
    IN  IF current_portfolio_value = 0
        THEN [error |-> <<"Error projecting investment returns: ",
                          "float division by zero">>]
        ELSE [n \in ScenarioNames |->
                 [k \in HorizonKeys |->
                     ReturnEntry(current_portfolio_value,
                                 economic_scenarios[n], HorizonOf(k))]]

\* _simulate_market_crash
_simulate_market_crash(forecast, financial_data) ==
    LET portfolio_value ==
            Get(Get(financial_data, "portfolio", EmptyDict),
                "total_value", 50000)
        net_worth_impact == Rat(portfolio_value * 30, 100)
    IN  [scenario |-> "30% Market Crash",
         portfolio_loss |-> round(net_worth_impact, 2),
         new_portfolio_value |-> round(Rat(portfolio_value * 70, 100), 2),
         recovery_time_months |-> 60,
         monthly_recovery_amount |->
             round(Rat(portfolio_value * 30, 100 * 60), 2),
         risk_level |-> "high",
         mitigation_strategies |->
             <<"Maintain emergency fund", "Diversify across asset classes",
               "Consider defensive stocks",
               "Dollar-cost averaging during recovery">>]

\* _simulate_job_loss.  The monthly expense is the 30-day entry's
\* projected_monthly_expense (hundredths) or 3000 when the expense forecast
\* has no such entry.
_simulate_job_loss_flooring_gap(forecast, financial_data) ==
    LET monthly_income == Get(financial_data, "monthly_income", 5000)
        emergency_fund == Get(financial_data, "emergency_fund", 15000)
        monthly_expenses ==
            Get(Get(Get(forecast, "expense_forecast", EmptyDict),
                    "30_days", EmptyDict),
                "projected_monthly_expense", Fixed(300000))
        positive == ~ monthly_expenses.nan /\ monthly_expenses.v > 0
        survival_months ==
            IF positive THEN Rat(emergency_fund * 100, monthly_expenses.v)
            ELSE Rat(0, 1)
        required_emergency_fund ==
            IF monthly_expenses.nan THEN NaN
            ELSE Fixed(monthly_expenses.v * 6)
    IN  [scenario |-> "Job Loss",
         monthly_income_loss |-> monthly_income,
         current_emergency_fund |-> emergency_fund,
         monthly_expenses |-> monthly_expenses,
         survival_months |-> round(survival_months, 1),
         required_emergency_fund |-> required_emergency_fund,
         funding_gap |->
             IF required_emergency_fund.nan THEN NaN
             ELSE Fixed(Max(0, required_emergency_fund.v
                                 - emergency_fund * 100)),
         risk_level |->
             IF survival_months.n >= 3 * survival_months.d
             THEN "medium" ELSE "high",
         mitigation_strategies |->
             <<"Build emergency fund to 6 months of expenses",
               "Reduce discretionary spending",
               "Consider side income sources", "Review insurance coverage">>]

_simulate_job_loss(forecast, financial_data) ==
    LET monthly_income == Get(financial_data, "monthly_income", 5000)
        emergency_fund == Get(financial_data, "emergency_fund", 15000)
        monthly_expenses ==
            Get(Get(Get(forecast, "expense_forecast", EmptyDict),
                    "30_days", EmptyDict),
                "projected_monthly_expense", Fixed(300000))
        positive == ~ monthly_expenses.nan /\ monthly_expenses.v > 0
        survival_months ==
            IF positive THEN Rat(emergency_fund * 100, monthly_expenses.v)
            ELSE Rat(0, 1)
        required_emergency_fund ==
            IF monthly_expenses.nan THEN NaN
            ELSE Fixed(monthly_expenses.v * 6)
    IN  [scenario |-> "Job Loss",
         monthly_income_loss |-> monthly_income,
         current_emergency_fund |-> emergency_fund,
         monthly_expenses |-> monthly_expenses,
         survival_months |-> round(survival_months, 1),
         required_emergency_fund |-> required_emergency_fund,
         funding_gap |->
             IF required_emergency_fund.nan THEN NaN
             ELSE Fixed(required_emergency_fund.v - emergency_fund * 100),
         risk_level |->
             IF survival_months.n >= 3 * survival_months.d
             THEN "medium" ELSE "high",
         mitigation_strategies |->
             <<"Build emergency fund to 6 months of expenses",
               "Reduce discretionary spending",
               "Consider side income sources", "Review insurance coverage">>]

\* _simulate_medical_emergency; the insurance coverage is in hundredths
_simulate_medical_emergency(forecast, financial_data) ==
    LET medical_cost == 10000
        health_insurance_coverage ==
            Get(financial_data, "health_insurance_coverage", 80)
        out_of_pocket == medical_cost * (100 - health_insurance_coverage)
        emergency_fund == Get(financial_data, "emergency_fund", 15000)
        can_cover == emergency_fund * 100 >= out_of_pocket
    IN  [scenario |-> "Medical Emergency ($10,000)",
         total_cost |-> medical_cost,
         insurance_coverage |-> health_insurance_coverage,
         out_of_pocket_cost |-> Fixed(out_of_pocket),
         emergency_fund |-> emergency_fund,
         can_cover |-> can_cover,
         funding_gap |-> Fixed(Max(0, out_of_pocket - emergency_fund * 100)),
         risk_level |-> IF can_cover THEN "low" ELSE "high",
         mitigation_strategies |->
             <<"Ensure adequate health insurance", "Build emergency fund",
               "Consider health savings account",
               "Review medical expense budget">>]

\* _simulate_interest_rate_shock
_simulate_interest_rate_shock(forecast, financial_data) ==
    LET current_liabilities ==
            Get(financial_data, "total_liabilities", 25000)
        additional_interest == Rat(current_liabilities * 2, 100)
    IN  [scenario |-> "2% Interest Rate Increase",
         rate_increase |-> Rat(2, 100),
         additional_annual_interest |-> round(additional_interest, 2),
         monthly_payment_increase |->
             round(Rat(current_liabilities * 2, 100 * 12), 2),
         risk_level |-> "medium",
         mitigation_strategies |->
             <<"Refinance high-interest debt", "Pay down variable-rate loans",
               "Lock in fixed rates",
               "Build emergency fund for higher payments">>]

\* _generate_risk_scenarios: the four stress scenarios.
_generate_risk_scenarios(forecast, financial_data) ==
    [market_crash |-> _simulate_market_crash(forecast, financial_data),
     job_loss |-> _simulate_job_loss(forecast, financial_data),
     medical_emergency |->
         _simulate_medical_emergency(forecast, financial_data),
     interest_rate_shock |->
         _simulate_interest_rate_shock(forecast, financial_data)]

\* the order in which _generate_risk_scenarios fills its dict
StressOrder ==
    <<"market_crash", "job_loss", "medical_emergency", "interest_rate_shock">>

\* scenario_name.replace('_', ' ').title()
TitleOf(scenario_name) ==
    CASE scenario_name = "market_crash" -> "Market Crash"
      [] scenario_name = "job_loss" -> "Job Loss"
      [] scenario_name = "medical_emergency" -> "Medical Emergency"
      [] scenario_name = "interest_rate_shock" -> "Interest Rate Shock"

\* f"{x:.1%}" for x in hundredths, as the pieces of the text
FormatPercent(x) == <<ToString(x.v), ".0%">>

\* f"{x:.1f}" for x in hundredths, as the pieces of the text
FormatTenths(x) ==
    LET tenths == RoundInt[Abs(x.v), 10, 0]
    IN  <<IF x.v < 0 /\ tenths > 0 THEN "-" ELSE "",
          ToString(tenths \div 10), ".", ToString(tenths % 10)>>

\* the keys of a section in iteration order: those of order that the
\* section has
KeysInOrder(section, order) ==
    LET keys[i \in 0..Len(order)] ==
            IF i = 0 THEN << >>
            ELSE IF order[i] \in DOMAIN section
                 THEN Append(keys[i - 1], order[i]) ELSE keys[i - 1]
    IN  keys[Len(order)]

\* _generate_forecast_recommendations.  The three loops call .get on every
\* value of a section; the one value of an error dict is a str, which has no
\* .get, so a section that is an error dict raises AttributeError and the
\* except branch returns a list of one error dict.
_generate_forecast_recommendations(forecast) ==
    LET cash_flow_forecast == Get(forecast, "cash_flow_forecast", EmptyDict)
        net_worth_projection ==
            Get(forecast, "net_worth_projection", EmptyDict)
        risk_scenarios == Get(forecast, "risk_scenarios", EmptyDict)
        HorizonKeyOrder == [i \in 1..Len(HorizonOrder) |->
                               HorizonKey(HorizonOrder[i])]
        CashFlowItem(horizon, data) ==
            IF Get(data, "cash_flow_ratio", Fixed(0)).v < 20
            THEN << [category |-> "cash_flow",
                     priority |-> "high",
                     title |-> "Improve Cash Flow",
                     description |->
                         <<"Cash flow ratio is ">>
                             \o FormatPercent(data.cash_flow_ratio)
                             \o <<" for ", horizon>>,
                     action |-> "Review expenses and increase income sources",
                     timeline |-> "immediate"] >>
            ELSE << >>
        NetWorthItem(horizon, data) ==
            IF Get(data, "growth_rate", Fixed(0)).v < 500
            THEN << [category |-> "net_worth",
                     priority |-> "medium",
                     title |-> "Accelerate Net Worth Growth",
                     description |->
                         <<"Projected growth rate is ">>
                             \o FormatTenths(data.growth_rate)
                             \o <<"% for ", horizon>>,
                     action |->
                         "Increase savings rate and optimize investments",
                     timeline |-> "3-6 months"] >>
            ELSE << >>
        RiskItem(scenario_name, scenario_data) ==
            IF Get(scenario_data, "risk_level", None) = "high"
            THEN << [category |-> "risk_management",
                     priority |-> "high",
                     title |-> <<"Mitigate ", TitleOf(scenario_name),
                                 " Risk">>,
                     description |->
                         <<"High risk level identified for ", scenario_name>>,
                     action |->
                         Get(scenario_data, "mitigation_strategies",
                             <<"Review risk exposure">>)[1],
                     timeline |-> "immediate"] >>
            ELSE << >>
        CashFlowItems ==
            LET keys == KeysInOrder(cash_flow_forecast, HorizonKeyOrder)
                items[i \in 0..Len(keys)] ==
                    IF i = 0 THEN << >>
                    ELSE items[i - 1]
                             \o CashFlowItem(keys[i],
                                             cash_flow_forecast[keys[i]])
            IN  items[Len(keys)]
        NetWorthItems ==
            LET keys == KeysInOrder(net_worth_projection, HorizonKeyOrder)
                items[i \in 0..Len(keys)] ==
                    IF i = 0 THEN << >>
                    ELSE items[i - 1]
                             \o NetWorthItem(keys[i],
                                             net_worth_projection[keys[i]])
            IN  items[Len(keys)]
        RiskItems ==
            LET keys == KeysInOrder(risk_scenarios, StressOrder)
                items[i \in 0..Len(keys)] ==
                    IF i = 0 THEN << >>
                    ELSE items[i - 1]
                             \o RiskItem(keys[i], risk_scenarios[keys[i]])
            IN  items[Len(keys)]
    IN  IF \/ "error" \in DOMAIN cash_flow_forecast
           \/ "error" \in DOMAIN net_worth_projection
           \/ "error" \in DOMAIN risk_scenarios
        THEN << [error |-> <<"Error generating recommendations: ",
                             "'str' object has no attribute 'get'">>] >>
        ELSE CashFlowItems \o NetWorthItems \o RiskItems

\* generate_forecast: every section catches its own exceptions and the body
\* sits in a try/except that returns {"error": ...}; nothing is raised to
\* the caller.
generate_forecast(financial_data, expenses, t) ==
    LET Sections(cf) ==
            [cash_flow_forecast |-> cf,
             net_worth_projection |-> _project_net_worth(financial_data, cf),
             expense_forecast |-> _forecast_expenses(expenses),
             investment_returns |->
                 _project_investment_returns(financial_data),
             risk_scenarios |-> EmptyDict,
             recommendations |-> << >>]
        WithRisk(f1) ==
            [f1 EXCEPT !.risk_scenarios =
                           _generate_risk_scenarios(f1, financial_data)]
        WithRecommendations(f2) ==
            [f2 EXCEPT !.recommendations =
                           _generate_forecast_recommendations(f2)]
        f1s == {Sections(cf) :
                   cf \in {_forecast_cash_flow(financial_data, expenses, t)}}
        f2s == {WithRisk(f1) : f1 \in f1s}
        f3s == {WithRecommendations(f2) : f2 \in f2s}
    IN  [raises |-> FALSE, value |-> Only(f3s), msg |-> ""]

\* A forecast in which a section (or the whole forecast) is an error dict.
ForecastFailed(forecast) ==
    \/ "error" \in DOMAIN forecast
    \/ \E k \in DOMAIN forecast \ {"recommendations"} :
           "error" \in DOMAIN forecast[k]

----------------------------------------------------------------------------
(* InvestmentAdvisor: src/ai_core/investment_advisor.py                    *)
(* The values of a strategy dict are of two Python types, so each carries  *)
(* its type: a float (in thousandths) or a str.                            *)

Num(n) == [t |-> "num", v |-> n]
Str(x) == [t |-> "str", v |-> x]
\* the float n / d
Ratio(n, d) == [t |-> "ratio", n |-> n, d |-> d]

\* self.strategies
strategies ==
    [conservative |->
        [bonds |-> Num(600), stocks |-> Num(300), cash |-> Num(100),
         description |-> Str("Low risk, stable returns, suitable for retirees or risk-averse investors")],
     moderate |->
        [bonds |-> Num(400), stocks |-> Num(500), cash |-> Num(100),
         description |-> Str("Balanced approach, moderate risk and return potential")],
     aggressive |->
        [bonds |-> Num(200), stocks |-> Num(700), cash |-> Num(100),
         description |-> Str("Higher risk, higher return potential, suitable for long-term investors")],
     growth |->
        [bonds |-> Num(100), stocks |-> Num(800), cash |-> Num(100),
         description |-> Str("Maximum growth potential, highest risk, for young investors with long time horizon")]]

\* the investment horizons of the model and what horizon.lower() contains
Horizons == {"10+ years", "Long-term", "short-term", "long, then short"}
ContainsLong(h) == h \in {"Long-term", "long, then short"}
ContainsShort(h) == h \in {"short-term", "long, then short"}

\* _determine_base_strategy
_determine_base_strategy_conservative_first(risk_tolerance, age, horizon) ==
    LET base_strategy ==
            IF age > 60 \/ ContainsShort(horizon) THEN "conservative"
            ELSE IF age < 30 /\ ContainsLong(horizon) THEN "growth"
            ELSE risk_tolerance
        strat == IF base_strategy \in DOMAIN strategies
                 THEN strategies[base_strategy]
                 ELSE strategies["moderate"]
    IN  [name |-> base_strategy,
         allocation |-> strat,
         description |-> strat.description]

_determine_base_strategy(risk_tolerance, age, horizon) ==
    LET base_strategy ==
            IF age < 30 /\ ContainsLong(horizon) THEN "growth"
            ELSE IF age > 60 \/ ContainsShort(horizon) THEN "conservative"
            ELSE risk_tolerance
        strat == IF base_strategy \in DOMAIN strategies
                 THEN strategies[base_strategy]
                 ELSE strategies["moderate"]
    IN  [name |-> base_strategy,
         allocation |-> strat,
         description |-> strat.description]

\* sum(allocation.values()): adding a str to a number raises TypeError
PySum(d) ==
    IF \E k \in DOMAIN d : d[k].t # "num"
    THEN [raises |-> TRUE, value |-> 0,
          msg |-> "unsupported operand type(s) for +: 'float' and 'str'"]
    ELSE LET RECURSIVE Total(_)
             Total(K) == IF K = {} THEN 0
                         ELSE LET k == CHOOSE x \in K : TRUE
                              IN  d[k].v + Total(K \ {k})
         IN  [raises |-> FALSE, value |-> Total(DOMAIN d), msg |-> ""]

\* _customize_for_goals: the three goal adjustments, then the division of
\* every value by the sum of the values of the allocation dict.  The dict is
\* the copy of a strategy template and still holds its description.
_customize_for_goals(base_strategy, goals) ==
    LET a0 == base_strategy.allocation
        a1 == IF "retirement" \in Range(goals)
              THEN [a0 EXCEPT
                      !.bonds = Num(Min(800, (a0.bonds.v * 12) \div 10)),
                      !.stocks = Num(Max(100, (a0.stocks.v * 8) \div 10))]
              ELSE a0
        a2 == IF "education" \in Range(goals)
              THEN [a1 EXCEPT
                      !.bonds = Num(Min(700, (a1.bonds.v * 11) \div 10)),
                      !.cash = Num(Min(200, (a1.cash.v * 15) \div 10))]
              ELSE a1
        a3 == IF "emergency_fund" \in Range(goals)
              THEN [a2 EXCEPT
                      !.cash = Num(Min(250, (a2.cash.v * 15) \div 10)),
                      !.stocks = Num(Max(50, (a2.stocks.v * 9) \div 10))]
              ELSE a2
        total == PySum(a3)
    IN  IF total.raises
        THEN [raises |-> TRUE, value |-> EmptyDict, msg |-> total.msg]
        ELSE [raises |-> FALSE, msg |-> "",
              value |-> [allocation |->
                            [k \in DOMAIN a3 |-> Ratio(a3[k].v, total.value)],
                         description |-> base_strategy.description]]

\* _get_rebalancing_schedule
_get_rebalancing_schedule(risk_tolerance) ==
    IF risk_tolerance = "conservative" THEN "Quarterly"
    ELSE IF risk_tolerance = "moderate" THEN "Semi-annually"
    ELSE "Annually"

\* _get_monitoring_frequency
_get_monitoring_frequency(risk_tolerance) ==
    IF risk_tolerance = "conservative" THEN "Weekly"
    ELSE IF risk_tolerance = "moderate" THEN "Bi-weekly"
    ELSE "Monthly"

\* get_investment_strategy: any exception of the body becomes the error
\* dict.  The recommendations and the risk metrics are computed from the
\* customized allocation, after the customization.
get_investment_strategy(user_profile) ==
    LET risk_tolerance == Get(user_profile, "risk_tolerance", "moderate")
        age == Get(user_profile, "age", 35)
        investment_horizon ==
            Get(user_profile, "investment_horizon", "10+ years")
        financial_goals == Get(user_profile, "financial_goals", << >>)
        base_strategy ==
            _determine_base_strategy(risk_tolerance, age, investment_horizon)
        customized == _customize_for_goals(base_strategy, financial_goals)
    IN  IF customized.raises
        THEN [error |->
                <<"Error generating investment strategy: ", customized.msg>>]
        ELSE [strategy_name |-> base_strategy.name,
              asset_allocation |-> customized.value.allocation,
              description |-> customized.value.description,
              recommendations |-> "recommendations",
              risk_metrics |-> "risk_metrics",
              rebalancing_schedule |->
                  _get_rebalancing_schedule(risk_tolerance),
              monitoring_frequency |->
                  _get_monitoring_frequency(risk_tolerance)]

----------------------------------------------------------------------------
(* FinancialAdvisorGraph: src/ai_core/financial_advisor_graph.py *)

END == "__end__"

\* FinancialState(...) as built by get_financial_advice
initial_state(user_query, user_id) ==
    [user_query |-> user_query,
     user_id |-> user_id,
     financial_data |-> EmptyDict,
     expenses |-> << >>,
     investment_profile |-> EmptyDict,
     recommendations |-> << >>,
     forecast |-> EmptyDict,
     response |-> "",
     error |-> EmptyStr,
     expense_analysis |-> "",
     investment_advice |-> ""]

\* _build_workflow: five nodes, the entry point and the edges between them.
_build_workflow_skipping ==
    [entry_point |-> "collect_financial_data",
     edges |-> [collect_financial_data |-> "analyze_expenses",
                analyze_expenses |-> "generate_investment_advice",
                generate_investment_advice |-> "synthesize_advice",
                forecast_financial_health |-> "synthesize_advice",
                synthesize_advice |-> END]]

_build_workflow_dangling ==
    [entry_point |-> "collect_financial_data",
     edges |-> [collect_financial_data |-> "analyze_expenses",
                analyze_expenses |-> "generate_investment_advice",
                generate_investment_advice |-> "forecast_financial_health",
                forecast_financial_health |-> "synthesize_advice",
                synthesize_advice |-> "finalize"]]

_build_workflow ==
    [entry_point |-> "collect_financial_data",
     edges |-> [collect_financial_data |-> "analyze_expenses",
                analyze_expenses |-> "generate_investment_advice",
                generate_investment_advice |-> "forecast_financial_health",
                forecast_financial_health |-> "synthesize_advice",
                synthesize_advice |-> END]]

Nodes == DOMAIN _build_workflow.edges

\* the declaration order of the nodes
StageOrder ==
    <<"collect_financial_data", "analyze_expenses",
      "generate_investment_advice", "forecast_financial_health",
      "synthesize_advice">>

\* _summarize_expenses
_summarize_expenses(expenses) ==
    IF expenses = << >>
    THEN [total_expenses |-> 0, categories |-> EmptyDict, count |-> 0]
    ELSE
      LET first50 == SubSeq(expenses, 1, Min(50, Len(expenses)))
          cats == {first50[i].category : i \in 1..Len(first50)}
          AmountsOf(c) ==
              [i \in 1..Len(first50) |->
                  IF first50[i].category = c THEN first50[i].amount ELSE 0]
          category_totals == [c \in cats |-> SumSeq(AmountsOf(c))]
          total_amount ==
              SumSeq([i \in 1..Len(first50) |-> first50[i].amount])
          FirstIdx(c) ==
              CHOOSE i \in 1..Len(first50) :
                  /\ first50[i].category = c
                  /\ \A j \in 1..(i - 1) : first50[j].category # c
          Before(d, c) ==
              \/ category_totals[d] > category_totals[c]
              \/ /\ category_totals[d] = category_totals[c]
                 /\ FirstIdx(d) < FirstIdx(c)
          top == {c \in cats : Cardinality({d \in cats : Before(d, c)}) < 10}
      IN  [total_expenses |-> total_amount,
           expense_count |-> Len(expenses),
           top_categories |-> [c \in top |-> category_totals[c]],
           average_expense |-> <<total_amount, Len(expenses)>>]

\* _summarize_portfolio
_summarize_portfolio(financial_data) ==
    LET pf == Get(financial_data, "portfolio", EmptyDict)
        market_data == Get(financial_data, "market_data", EmptyDict)
        good == {s \in DOMAIN market_data :
                    ~ Truthy(Get(market_data[s], "error", EmptyStr))}
    IN  [total_value |-> Get(pf, "total_value", 0),
         risk_tolerance |-> Get(pf, "risk_tolerance", "moderate"),
         investment_horizon |-> Get(pf, "investment_horizon", "10+ years"),
         symbols |-> Get(pf, "symbols", << >>),
         allocations |-> Get(pf, "allocations", EmptyDict),
         market_performance |->
             [s \in good |->
                 [current_price |-> Get(market_data[s], "current_price", 0),
                  price_change_pct |->
                      Get(market_data[s], "price_change_pct", 0),
                  sector |-> Get(market_data[s], "sector", "Unknown")]]]

\* A call of self.openai_llm.ainvoke([SystemMessage, HumanMessage]) with the
\* data interpolated into the prompt, and what the collaborator answered.
LLMCall(system, data, llm) ==
    [to |-> "openai_llm", system |-> system, data |-> data, answer |-> llm]

\* Each node is given as a function of the state it receives and of the
\* outcomes of the collaborators it awaits; it yields the state it returns,
\* the collaborator calls it made and whether its except branch ran.

\* _collect_financial_data, given the outcome of collect_all_data (snap) and
\* of get_user_expenses (exp); exp is awaited only if snap did not raise.
_collect_financial_data_storing_early(st, snap, exp) ==
    IF snap.raises
    THEN [state |-> [st EXCEPT !.error =
                        <<"Error collecting financial data: ", snap.msg>>],
          failed |-> TRUE, msg |-> snap.msg]
    ELSE IF exp.raises
    THEN [state |-> [st EXCEPT !.financial_data = snap.value,
                               !.error =
                        <<"Error collecting financial data: ", exp.msg>>],
          failed |-> TRUE, msg |-> exp.msg]
    ELSE [state |-> [st EXCEPT !.financial_data = snap.value,
                               !.expenses = exp.value],
          failed |-> FALSE, msg |-> ""]

_collect_financial_data(st, snap, exp) ==
    IF snap.raises
    THEN [state |-> [st EXCEPT !.error =
                        <<"Error collecting financial data: ", snap.msg>>],
          failed |-> TRUE, msg |-> snap.msg]
    ELSE IF exp.raises
    THEN [state |-> [st EXCEPT !.error =
                        <<"Error collecting financial data: ", exp.msg>>],
          failed |-> TRUE, msg |-> exp.msg]
    ELSE [state |-> [st EXCEPT !.financial_data = snap.value,
                               !.expenses = exp.value],
          failed |-> FALSE, msg |-> ""]

\* _analyze_expenses
_analyze_expenses_retrying(st, llm) ==
    LET call == LLMCall(
                  "You are a financial expert analyzing personal expenses.",
                  _summarize_expenses(st.expenses), llm)
    IN  IF llm.raises
        THEN [state |-> [st EXCEPT !.error =
                            <<"Error analyzing expenses: ", llm.msg>>],
              invoked |-> <<call, call>>, failed |-> TRUE, msg |-> llm.msg]
        ELSE [state |-> [st EXCEPT !.expense_analysis = llm.content],
              invoked |-> <<call>>, failed |-> FALSE, msg |-> ""]

_analyze_expenses(st, llm) ==
    LET call == LLMCall(
                  "You are a financial expert analyzing personal expenses.",
                  _summarize_expenses(st.expenses), llm)
    IN  IF llm.raises
        THEN [state |-> [st EXCEPT !.error =
                            <<"Error analyzing expenses: ", llm.msg>>],
              invoked |-> <<call>>, failed |-> TRUE, msg |-> llm.msg]
        ELSE [state |-> [st EXCEPT !.expense_analysis = llm.content],
              invoked |-> <<call>>, failed |-> FALSE, msg |-> ""]

\* _generate_investment_advice
_generate_investment_advice_clearing_error(st, llm) ==
    LET call == LLMCall(
          "You are a certified financial advisor providing investment guidance.",
          [user_query |-> st.user_query,
           portfolio_summary |-> _summarize_portfolio(st.financial_data)],
          llm)
    IN  IF llm.raises
        THEN [state |-> [st EXCEPT !.error =
                            <<"Error generating investment advice: ", llm.msg>>],
              invoked |-> <<call>>, failed |-> TRUE, msg |-> llm.msg]
        ELSE [state |-> [st EXCEPT !.investment_advice = llm.content,
                                   !.error = EmptyStr],
              invoked |-> <<call>>, failed |-> FALSE, msg |-> ""]

_generate_investment_advice(st, llm) ==
    LET call == LLMCall(
          "You are a certified financial advisor providing investment guidance.",
          [user_query |-> st.user_query,
           portfolio_summary |-> _summarize_portfolio(st.financial_data)],
          llm)
    IN  IF llm.raises
        THEN [state |-> [st EXCEPT !.error =
                            <<"Error generating investment advice: ", llm.msg>>],
              invoked |-> <<call>>, failed |-> TRUE, msg |-> llm.msg]
        ELSE [state |-> [st EXCEPT !.investment_advice = llm.content],
              invoked |-> <<call>>, failed |-> FALSE, msg |-> ""]

\* _forecast_financial_health
_forecast_financial_health_failing_on_marker(st, t) ==
    LET call == [to |-> "forecaster"]
        Outcome(r) ==
            IF r.raises \/ ForecastFailed(r.value)
            THEN [state |-> [st EXCEPT !.error =
                                <<"Error forecasting financial health: ",
                                  r.msg>>],
                  invoked |-> <<call>>, failed |-> TRUE, msg |-> r.msg]
            ELSE [state |-> [st EXCEPT !.forecast = r.value],
                  invoked |-> <<call>>, failed |-> FALSE, msg |-> ""]
    IN  Only({Outcome(r) :
              r \in {generate_forecast(st.financial_data, st.expenses, t)}})

_forecast_financial_health(st, t) ==
    LET call == [to |-> "forecaster"]
        Outcome(r) ==
            IF r.raises
            THEN [state |-> [st EXCEPT !.error =
                                <<"Error forecasting financial health: ",
                                  r.msg>>],
                  invoked |-> <<call>>, failed |-> TRUE, msg |-> r.msg]
            ELSE [state |-> [st EXCEPT !.forecast = r.value],
                  invoked |-> <<call>>, failed |-> FALSE, msg |-> ""]
    IN  Only({Outcome(r) :
              r \in {generate_forecast(st.financial_data, st.expenses, t)}})

\* _synthesize_advice
_synthesize_advice_skipping_on_error(st, llm) ==
    LET call == LLMCall(
          "You are a senior financial advisor creating comprehensive financial plans.",
          [expense_analysis |-> st.expense_analysis,
           investment_advice |-> st.investment_advice,
           forecast |-> st.forecast],
          llm)
    IN  IF Truthy(st.error)
        THEN [state |-> st, invoked |-> << >>, failed |-> FALSE, msg |-> ""]
        ELSE IF llm.raises
        THEN [state |-> [st EXCEPT !.error =
                            <<"Error synthesizing advice: ", llm.msg>>],
              invoked |-> <<call>>, failed |-> TRUE, msg |-> llm.msg]
        ELSE [state |-> [st EXCEPT !.response = llm.content],
              invoked |-> <<call>>, failed |-> FALSE, msg |-> ""]

_synthesize_advice_keeping_first_error(st, llm) ==
    LET call == LLMCall(
          "You are a senior financial advisor creating comprehensive financial plans.",
          [expense_analysis |-> st.expense_analysis,
           investment_advice |-> st.investment_advice,
           forecast |-> st.forecast],
          llm)
    IN  IF llm.raises
        THEN [state |-> [st EXCEPT !.error =
                            IF Truthy(st.error) THEN st.error
                            ELSE <<"Error synthesizing advice: ", llm.msg>>],
              invoked |-> <<call>>, failed |-> TRUE, msg |-> llm.msg]
        ELSE [state |-> [st EXCEPT !.response = llm.content],
              invoked |-> <<call>>, failed |-> FALSE, msg |-> ""]

_synthesize_advice(st, llm) ==
    LET call == LLMCall(
          "You are a senior financial advisor creating comprehensive financial plans.",
          [expense_analysis |-> st.expense_analysis,
           investment_advice |-> st.investment_advice,
           forecast |-> st.forecast],
          llm)
    IN  IF llm.raises
        THEN [state |-> [st EXCEPT !.error =
                            <<"Error synthesizing advice: ", llm.msg>>],
              invoked |-> <<call>>, failed |-> TRUE, msg |-> llm.msg]
        ELSE [state |-> [st EXCEPT !.response = llm.content],
              invoked |-> <<call>>, failed |-> FALSE, msg |-> ""]

\* The terminal check of get_financial_advice on the workflow's final state.
ResultEnvelope_key_present(final_state) ==
    IF "error" \in DOMAIN final_state
    THEN [success |-> FALSE, error |-> final_state.error, advice |-> None]
    ELSE [success |-> TRUE,
          advice |-> final_state.response,
          forecast |-> final_state.forecast,
          expense_analysis |-> final_state.expense_analysis,
          investment_advice |-> final_state.investment_advice]

ResultEnvelope(final_state) ==
    IF Truthy(final_state.error)
    THEN [success |-> FALSE, error |-> final_state.error, advice |-> None]
    ELSE [success |-> TRUE,
          advice |-> final_state.response,
          forecast |-> final_state.forecast,
          expense_analysis |-> final_state.expense_analysis,
          investment_advice |-> final_state.investment_advice]

----------------------------------------------------------------------------
(* The pipeline as a state machine *)

PortfolioOutcomes ==
    [raises : {FALSE}, value : Portfolios, msg : {""}]
        \cup [raises : {TRUE}, value : {EmptyDict}, msg : ExcMsgs]

ExpenseOutcomes ==
    [raises : {FALSE}, value : ExpenseLists, msg : {""}]
        \cup [raises : {TRUE}, value : {<< >>}, msg : ExcMsgs]

Returned(v) == [raises |-> FALSE, value |-> v, msg |-> ""]

Init ==
    /\ pc = "not_started"
    /\ cpos = "-"
    /\ state = EmptyDict
    /\ portfolio = EmptyDict
    /\ pending = {}
    /\ results = << >>
    /\ fetched = << >>
    /\ collected = EmptyDict
    /\ envelope = EmptyDict
    /\ config \in Configs
    /\ trace = << >>
    /\ raised = << >>
    /\ calls = << >>
    /\ spc = "idle"
    /\ profile = EmptyDict
    /\ strategy = EmptyDict
    /\ now = Today
    /\ fpc = "idle"
    /\ snapshot = EmptyDict
    /\ history = << >>
    /\ forecasts = << >>
    /\ apc = "idle"
    /\ portfolio_data = EmptyDict
    /\ analysis = EmptyDict
    /\ tpc = "idle"
    /\ df = << >>
    /\ overall_trend = EmptyDict

\* The workflow moves to node n (or to END).
Goto(n) ==
    /\ pc' = n
    /\ trace' = IF n \in Nodes THEN Append(trace, n) ELSE trace
    /\ cpos' = IF n = "collect_financial_data" THEN "portfolio" ELSE "-"

\* The running node returns r.state and the workflow follows its edge; the
\* locals of collect_all_data die with the node.
Leave(r) ==
    /\ state' = r.state
    /\ raised' = IF r.failed
                 THEN Append(raised, [node |-> pc, msg |-> r.msg])
                 ELSE raised
    /\ Goto(_build_workflow.edges[pc])
    /\ portfolio' = EmptyDict
    /\ pending' = {}
    /\ results' = << >>
    /\ fetched' = << >>
    /\ collected' = EmptyDict

\* get_financial_advice builds the initial state and invokes the workflow.
Start ==
    /\ pc = "not_started"
    /\ \E q \in UserQueries, u \in UserIds : state' = initial_state(q, u)
    /\ Goto(_build_workflow.entry_point)
    /\ UNCHANGED <<portfolio, pending, results, fetched, collected, envelope, config,
                   raised, calls, spc, profile, strategy,
                   forecastvars, analysisvars>>

\* collect_all_data: await _get_user_portfolio, then start one task per
\* symbol (or go on with no market data when there is no symbol).
CollectPortfolio ==
    /\ pc = "collect_financial_data"
    /\ cpos = "portfolio"
    /\ calls' = Append(calls, [to |-> "portfolio_store"])
    /\ \E out \in PortfolioOutcomes :
          IF out.raises
          THEN Leave(_collect_financial_data(state, out, out))
          ELSE /\ portfolio' = out.value
               /\ IF out.value.symbols # << >>
                  THEN /\ pending' = 1..Len(out.value.symbols)
                       /\ collected' = collected
                       /\ cpos' = "gather"
                  ELSE /\ pending' = {}
                       /\ collected' =
                              collect_all_data(out.value, EmptyDict, config)
                       /\ cpos' = "expenses"
               /\ results' = << >>
               /\ fetched' = << >>
               /\ UNCHANGED <<pc, state, trace, raised>>
    /\ UNCHANGED <<envelope, config, spc, profile, strategy,
                   forecastvars, analysisvars>>

\* One _get_symbol_data task runs to completion.
SymbolFetch ==
    /\ pc = "collect_financial_data"
    /\ cpos = "gather"
    /\ \E i \in pending, y \in YahooOutcomes, a \in AlphaOutcomes :
          /\ results' =
                 [j \in DOMAIN results \cup {i} |->
                     IF j = i
                     THEN _get_symbol_data(portfolio.symbols[i], config, y, a)
                     ELSE results[j]]
          /\ fetched' =
                 [j \in DOMAIN fetched \cup {i} |->
                     IF j = i THEN [yahoo |-> y, alpha |-> a] ELSE fetched[j]]
          /\ pending' = pending \ {i}
    /\ UNCHANGED <<pc, cpos, state, portfolio, collected, envelope, config,
                   trace, raised, calls, spc, profile, strategy,
                   forecastvars, analysisvars>>

\* The gather returns; _collect_market_data builds the map and
\* collect_all_data adds the indicators and the risk metrics.
GatherJoin ==
    /\ pc = "collect_financial_data"
    /\ cpos = "gather"
    /\ GatherReady(pending, portfolio.symbols)
    /\ collected' =
           collect_all_data(portfolio,
                            _collect_market_data(portfolio.symbols, results),
                            config)
    /\ cpos' = "expenses"
    /\ UNCHANGED <<pc, state, portfolio, pending, results, fetched, envelope,
                   config, trace, raised, calls, spc, profile, strategy,
                   forecastvars, analysisvars>>

\* await get_user_expenses, then the two assignments or the except branch.
CollectExpenses ==
    /\ pc = "collect_financial_data"
    /\ cpos = "expenses"
    /\ calls' = Append(calls, [to |-> "expense_store"])
    /\ \E out \in ExpenseOutcomes :
          Leave(_collect_financial_data(state, Returned(collected), out))
    /\ UNCHANGED <<envelope, config, spc, profile, strategy,
                   forecastvars, analysisvars>>

AnalyzeExpenses ==
    /\ pc = "analyze_expenses"
    /\ \E llm \in LLMOutcomes :
          LET r == _analyze_expenses(state, llm)
          IN  Leave(r) /\ calls' = calls \o r.invoked
    /\ UNCHANGED <<envelope, config, spc, profile, strategy,
                   forecastvars, analysisvars>>

GenerateInvestmentAdvice ==
    /\ pc = "generate_investment_advice"
    /\ \E llm \in LLMOutcomes :
          LET r == _generate_investment_advice(state, llm)
          IN  Leave(r) /\ calls' = calls \o r.invoked
    /\ UNCHANGED <<envelope, config, spc, profile, strategy,
                   forecastvars, analysisvars>>

ForecastFinancialHealth ==
    /\ pc = "forecast_financial_health"
    /\ \E r \in {_forecast_financial_health(state, now)} :
          Leave(r) /\ calls' = calls \o r.invoked
    /\ UNCHANGED <<envelope, config, spc, profile, strategy,
                   forecastvars, analysisvars>>

SynthesizeAdvice ==
    /\ pc = "synthesize_advice"
    /\ \E llm \in LLMOutcomes :
          LET r == _synthesize_advice(state, llm)
          IN  Leave(r) /\ calls' = calls \o r.invoked
    /\ UNCHANGED <<envelope, config, spc, profile, strategy,
                   forecastvars, analysisvars>>

\* workflow.ainvoke has returned the final state: the terminal check.
Return ==
    /\ pc = END
    /\ envelope' = ResultEnvelope(state)
    /\ pc' = "done"
    /\ UNCHANGED <<cpos, state, portfolio, pending, results, fetched, collected,
                   config, trace, raised, calls, spc, profile, strategy,
                   forecastvars, analysisvars>>

Next ==
    \/ Start
    \/ CollectPortfolio
    \/ SymbolFetch
    \/ GatherJoin
    \/ CollectExpenses
    \/ AnalyzeExpenses
    \/ GenerateInvestmentAdvice
    \/ ForecastFinancialHealth
    \/ SynthesizeAdvice
    \/ Return

Spec == Init /\ [][Next]_vars

\* Every awaited collaborator call returns or raises, and the event loop
\* runs a coroutine that can continue.
FairSpec == Spec /\ WF_vars(Next)

----------------------------------------------------------------------------
(* Properties of the pipeline *)

IsPrefix(s, t) == Len(s) <= Len(t) /\ \A i \in 1..Len(s) : s[i] = t[i]

Last(s) == s[Len(s)]

\* position of a node in the declaration order
Pos(n) == CHOOSE i \in 1..Len(StageOrder) : StageOrder[i] = n

\* the message each node writes in front of str(e)
ErrPrefix ==
    [collect_financial_data |-> "Error collecting financial data: ",
     analyze_expenses |-> "Error analyzing expenses: ",
     generate_investment_advice |-> "Error generating investment advice: ",
     forecast_financial_health |-> "Error forecasting financial health: ",
     synthesize_advice |-> "Error synthesizing advice: "]

\* the three narrative calls of a plan, by node, in pipeline order
NarrativeNodes ==
    <<"analyze_expenses", "generate_investment_advice", "synthesize_advice">>

NarrativeSystem ==
    <<"You are a financial expert analyzing personal expenses.",
      "You are a certified financial advisor providing investment guidance.",
      "You are a senior financial advisor creating comprehensive financial plans.">>

\* the state field the i-th narrative call's text goes to
NarrativeField(i, st) ==
    CASE i = 1 -> st.expense_analysis
      [] i = 2 -> st.investment_advice
      [] OTHER -> st.response

IsNarrative(c) == c.to = "openai_llm"

NarrativeCalls == SelectSeq(calls, IsNarrative)

\* the node a logged collaborator call was made by
NodeOfCall(c) ==
    IF c.to \in {"portfolio_store", "expense_store"}
    THEN "collect_financial_data"
    ELSE IF c.to = "forecaster" THEN "forecast_financial_health"
    ELSE NarrativeNodes[CHOOSE i \in 1..3 : NarrativeSystem[i] = c.system]

CallingNodes == {NodeOfCall(calls[i]) : i \in 1..Len(calls)}

RaisedNodes == {raised[i].node : i \in 1..Len(raised)}

\* C1: in every run the five stages are entered in the fixed order
\* collect_financial_data, analyze_expenses, generate_investment_advice,
\* forecast_financial_health, synthesize_advice, each exactly once; the run
\* is then Done, no stage is entered twice and nothing runs after Done.
C1_FixedStageOrder ==
    /\ pc \in {"not_started", END, "done"} \cup Nodes
    /\ IsPrefix(trace, StageOrder)
    /\ pc = "not_started" => trace = << >>
    /\ pc \in Nodes => trace # << >> /\ Last(trace) = pc
    /\ pc \in {END, "done"} => trace = StageOrder
    /\ pc = "done" => ~ ENABLED Next

C1_Witness == pc = "done" /\ trace = StageOrder /\ Len(trace) = 5

\* C2: fail-soft: when a stage has raised, every later stage is still
\* entered and still makes its collaborator call, whatever state.error
\* holds; a running stage can always go on.
C2_FailSoft ==
    /\ pc \in Nodes => ENABLED Next
    /\ pc \in {END, "done"} =>
          \A i \in 1..Len(raised) : \A n \in Nodes :
              Pos(n) > Pos(raised[i].node) =>
                  n \in Range(trace) /\ n \in CallingNodes

\* analyze_expenses raised, the three later stages ran, and the last of them
\* overwrote the error
C2_Witness ==
    /\ pc = "done"
    /\ Len(raised) = 2
    /\ raised[1].node = "analyze_expenses"
    /\ raised[2].node = "synthesize_advice"
    /\ {"generate_investment_advice", "forecast_financial_health",
        "synthesize_advice"} \subseteq CallingNodes
    /\ state.error[1] = ErrPrefix["synthesize_advice"]

\* C3: the envelope is decided once, after all five stages: the failure
\* envelope {success: false, error: state.error, advice: None} iff
\* state.error is non-empty then, else the success envelope built from the
\* final state; before that no envelope exists.
C3_TerminalCheck ==
    /\ pc # "done" => envelope = EmptyDict
    /\ pc = "done" =>
          /\ trace = StageOrder
          /\ IF \E i \in 1..Len(state.error) : state.error[i] # ""
             THEN envelope = [success |-> FALSE, error |-> state.error,
                              advice |-> None]
             ELSE envelope = [success |-> TRUE,
                              advice |-> state.response,
                              forecast |-> state.forecast,
                              expense_analysis |-> state.expense_analysis,
                              investment_advice |-> state.investment_advice]

C3_Witness ==
    /\ pc = "done"
    /\ state.error = EmptyStr
    /\ envelope.success
    /\ envelope.advice = "narrative"
    /\ envelope.forecast # EmptyDict

\* C4: last write wins: when stages failed, the error of the failure
\* envelope is the message of the last failing stage in pipeline order.
C4_LastWriteWins ==
    (pc = "done" /\ raised # << >>) =>
        /\ envelope.success = FALSE
        /\ envelope.error =
               <<ErrPrefix[Last(raised).node], Last(raised).msg>>

\* two stages failed with different messages; only the later is visible
C4_Witness ==
    /\ pc = "done"
    /\ Len(raised) >= 2
    /\ raised[1].node = "collect_financial_data"
    /\ raised[1].msg = "timeout"
    /\ Last(raised).node = "synthesize_advice"
    /\ Last(raised).msg = ""
    /\ envelope.error = <<"Error synthesizing advice: ", "">>

\* C5: a step in which a stage fails changes no field of the planning state
\* but error.
C5_FailureFrame ==
    [][Len(raised') > Len(raised) =>
          /\ DOMAIN state' = DOMAIN state
          /\ \A f \in DOMAIN state \ {"error"} : state'[f] = state[f]]_vars

\* the snapshot was fetched, the expense fetch raised, nothing was stored
C5_Witness ==
    /\ pc = "analyze_expenses"
    /\ Len(calls) = 2
    /\ calls[2].to = "expense_store"
    /\ Len(raised) = 1
    /\ raised[1].node = "collect_financial_data"
    /\ state.financial_data = EmptyDict
    /\ state.expenses = << >>
    /\ Truthy(state.error)

\* a per-symbol fetch failed: an enabled data source raised
FetchFailed(i) ==
    \/ config.yahoo_enabled /\ fetched[i].yahoo = "error"
    \/ config.alpha_vantage_key # "" /\ fetched[i].alpha = "error"

\* C6: market-data fan-out: the map is built only when every per-symbol
\* fetch has finished; it has exactly one entry per requested symbol, which
\* is what that symbol's own fetch produced; the entry of a failed fetch
\* carries an error and the entry of a successful one does not; and no step
\* of the fan-out makes the collect stage fail.
C6_FanOutState ==
    (pc = "collect_financial_data" /\ cpos = "expenses"
        /\ portfolio.symbols # << >>) =>
        LET symbols == portfolio.symbols
            market_data == collected.market_data
        IN  /\ pending = {}
            /\ DOMAIN results = 1..Len(symbols)
            /\ DOMAIN market_data = Range(symbols)
            /\ Cardinality(DOMAIN market_data) = Len(symbols)
            /\ \A i \in 1..Len(symbols) :
                  /\ market_data[symbols[i]] = results[i].value
                  /\ FetchFailed(i) =>
                        Truthy(Get(market_data[symbols[i]], "error", EmptyStr))
                  /\ ~ FetchFailed(i) =>
                        "error" \notin DOMAIN market_data[symbols[i]]

C6_FanOutStep ==
    /\ (pc = "collect_financial_data" /\ cpos = "gather") =>
          /\ state' = state
          /\ raised' = raised
          /\ pc' = pc
          /\ \A i \in DOMAIN results : results'[i] = results[i]
    /\ (pc = "collect_financial_data" /\ raised' # raised) => calls' # calls

C6_FanOut == [] C6_FanOutState /\ [][C6_FanOutStep]_vars

\* two symbols, the first fetch failed and the second did not
C6_Witness ==
    /\ pc = "collect_financial_data"
    /\ cpos = "expenses"
    /\ Len(portfolio.symbols) = 2
    /\ FetchFailed(1)
    /\ ~ FetchFailed(2)
    /\ "error" \in DOMAIN collected.market_data[portfolio.symbols[1]]
    /\ "current_price" \in DOMAIN collected.market_data[portfolio.symbols[2]]
    /\ state.error = EmptyStr

\* C7: a failure inside the forecast engine during forecast_financial_health
\* ends the run with a failure envelope.
C7_ForecastFailureSurfaced ==
    (pc = "done" /\ ForecastFailed(state.forecast)) =>
        /\ Truthy(state.error)
        /\ envelope.success = FALSE

\* C8: per plan the narrative collaborator is called exactly three times, in
\* the order expense analysis, investment advice, final synthesis, once per
\* stage whatever failed before; the text of a call that returns is stored
\* verbatim in its field, and a call that raises is recorded as that stage's
\* failure with its message.
C8_NarrativeCalls ==
    /\ Len(NarrativeCalls) <= 3
    /\ pc \in {END, "done"} => Len(NarrativeCalls) = 3
    /\ \A i \in 1..Len(NarrativeCalls) :
          LET c == NarrativeCalls[i]
          IN  /\ c.system = NarrativeSystem[i]
              /\ NarrativeNodes[i] \in Range(trace)
              /\ IF c.answer.raises
                 THEN /\ [node |-> NarrativeNodes[i], msg |-> c.answer.msg]
                             \in Range(raised)
                      /\ NarrativeField(i, state) = ""
                 ELSE /\ NarrativeField(i, state) = c.answer.content
                      /\ NarrativeNodes[i] \notin RaisedNodes
    /\ (raised # << >> /\ Last(raised).node \in Range(NarrativeNodes)) =>
          state.error = <<ErrPrefix[Last(raised).node], Last(raised).msg>>

\* collect and the first narrative call failed; the other two still ran
C8_Witness ==
    /\ pc = "done"
    /\ Len(NarrativeCalls) = 3
    /\ NarrativeCalls[1].answer.raises
    /\ ~ NarrativeCalls[2].answer.raises
    /\ ~ NarrativeCalls[3].answer.raises
    /\ raised[1].node = "collect_financial_data"
    /\ state.investment_advice = "narrative"
    /\ state.response = "narrative"

\* C9: termination: every run reaches Done and returns an envelope.
C9_Terminates == <>(pc = "done" /\ envelope # EmptyDict)

\* a run in which four stages failed is Done
C9_Witness ==
    /\ pc = "done"
    /\ Cardinality(RaisedNodes) = 4
    /\ envelope # EmptyDict

----------------------------------------------------------------------------
(* The strategy engine as a state machine: one request with a profile drawn
   from a bounded set. *)

RiskTolerances ==
    {"conservative", "moderate", "aggressive", "growth", "balanced"}

Ages == {25, 30, 45, 60, 65}

GoalLists ==
    { << >>,
      <<"retirement">>, <<"education">>, <<"emergency_fund">>,
      <<"retirement", "education">>, <<"retirement", "emergency_fund">>,
      <<"education", "emergency_fund">>,
      <<"retirement", "education", "emergency_fund">>,
      <<"emergency_fund", "retirement">>,
      <<"retirement", "retirement">>,
      <<"vacation">> }

Profiles ==
    {EmptyDict} \cup
    [risk_tolerance : RiskTolerances, age : Ages,
     investment_horizon : Horizons, financial_goals : GoalLists]

InitStrategy ==
    /\ Init
    /\ config = [yahoo_enabled |-> TRUE, alpha_vantage_key |-> ""]

RequestStrategy ==
    /\ spc = "idle"
    /\ \E p \in Profiles : profile' = p
    /\ spc' = "requested"
    /\ UNCHANGED <<strategy, pc, cpos, state, portfolio, pending, results,
                   fetched, collected, envelope, config, trace, raised,
                   calls, forecastvars, analysisvars>>

GetInvestmentStrategy ==
    /\ spc = "requested"
    /\ strategy' = get_investment_strategy(profile)
    /\ spc' = "returned"
    /\ UNCHANGED <<profile, pc, cpos, state, portfolio, pending, results,
                   fetched, collected, envelope, config, trace, raised,
                   calls, forecastvars, analysisvars>>

NextStrategy == RequestStrategy \/ GetInvestmentStrategy

SpecStrategy == InitStrategy /\ [][NextStrategy]_vars

\* C10: allocation invariant: every strategy request, for any archetype and
\* any goals, returns a strategy whose allocation values sum to 1.0 within
\* 1e-6 after goal customization and renormalization.
C10_AllocationSumsToOne ==
    spc = "returned" =>
        /\ "asset_allocation" \in DOMAIN strategy
        /\ LET alloc == strategy.asset_allocation
               RECURSIVE Numerators(_)
               Numerators(K) == IF K = {} THEN 0
                                ELSE LET k == CHOOSE x \in K : TRUE
                                     IN  alloc[k].n + Numerators(K \ {k})
               d == alloc.bonds.d
               diff == Numerators(DOMAIN alloc) - d
           IN  /\ \A k \in DOMAIN alloc : alloc[k].t = "ratio" /\ alloc[k].d = d
               /\ diff * 1000000 <= d
               /\ (0 - diff) * 1000000 <= d

\* C11: for a profile whose risk tolerance is one of the four archetypes,
\* get_investment_strategy returns a strategy record and not an error marker,
\* and its allocation has exactly the keys bonds, stocks and cash, each
\* mapped to a number.
C11_StrategyRecord ==
    (/\ spc = "returned"
     /\ "risk_tolerance" \in DOMAIN profile
     /\ profile.risk_tolerance \in DOMAIN strategies) =>
        /\ "error" \notin DOMAIN strategy
        /\ {"strategy_name", "asset_allocation", "description",
            "recommendations", "risk_metrics", "rebalancing_schedule",
            "monitoring_frequency"} \subseteq DOMAIN strategy
        /\ DOMAIN strategy.asset_allocation = {"bonds", "stocks", "cash"}
        /\ \A k \in DOMAIN strategy.asset_allocation :
               strategy.asset_allocation[k].t \in {"num", "ratio"}

----------------------------------------------------------------------------
(* The forecast engine as a state machine: a caller invokes                *)
(* generate_forecast on one snapshot and one expense history, more than    *)
(* once, while the clock advances.                                         *)

\* How many days the clock advances
MaxTicks == 1

\* How many times the caller invokes generate_forecast on its inputs
MaxInvocations == 2

\* financial_data dicts: the keys the engine reads, present or defaulted
Snapshots ==
    { EmptyDict,
      [monthly_income |-> 5000, emergency_fund |-> 15000],
      [monthly_income |-> 4000, emergency_fund |-> 9000,
       portfolio |-> [total_value |-> 100000]],
      [emergency_fund |-> 8999, total_liabilities |-> 0],
      [emergency_fund |-> 0, portfolio |-> [total_value |-> 0]],
      [monthly_income |-> None],
      [total_assets |-> None] }

\* n expenses on n consecutive days ending on day last, newest first (the
\* order of the sample data), of base + (i % 4) dollars
DailyHistory(n, last, base) ==
    [i \in 1..n |-> Expense(i, base + (i % 4), "Food & Dining", last + 1 - i)]

\* expense histories: empty, one day, an expense that leaves the trailing
\* 30 days when the clock advances, a refund, two expenses on one day, and
\* 6, 7, 29, 30 and 31 distinct days
Histories ==
    { << >>,
      << Expense(1, 3000, "Bills & Utilities", Today) >>,
      << Expense(1, 1500, "Bills & Utilities", Today - 30),
         Expense(2, 1500, "Shopping", Today) >>,
      << Expense(1, -50, "Shopping", Today - 1),
         Expense(2, 20, "Food & Dining", Today) >>,
      << Expense(1, 0, "Shopping", Today) >>,
      << Expense(1, 40, "Shopping", Today),
         Expense(2, 60, "Food & Dining", Today),
         Expense(3, 400, "Healthcare", Today - 2) >>,
      DailyHistory(6, Today, 10),
      DailyHistory(7, Today, 10),
      DailyHistory(29, Today, 10),
      DailyHistory(30, Today, 10),
      DailyHistory(31, Today, 5) }

InitForecast ==
    /\ Init
    /\ config = [yahoo_enabled |-> TRUE, alpha_vantage_key |-> ""]

\* a caller picks the inputs of its invocations
RequestForecast ==
    /\ fpc = "idle"
    /\ \E s \in Snapshots, h \in Histories :
          /\ snapshot' = s
          /\ history' = h
    /\ fpc' = "requested"
    /\ UNCHANGED <<now, forecasts, pipevars, stratvars, analysisvars>>

\* one invocation of generate_forecast, which reads the clock
GenerateForecast ==
    /\ fpc = "requested"
    /\ Len(forecasts) < MaxInvocations
    /\ forecasts' =
           Append(forecasts,
                  [at |-> now,
                   value |-> generate_forecast(snapshot, history, now).value])
    /\ fpc' = IF Len(forecasts') = MaxInvocations
              THEN "returned" ELSE "requested"
    /\ UNCHANGED <<now, snapshot, history, pipevars, stratvars, analysisvars>>

\* a day passes
Tick ==
    /\ now < Today + MaxTicks
    /\ now' = now + 1
    /\ UNCHANGED <<fpc, snapshot, history, forecasts, pipevars, stratvars,
                   analysisvars>>

NextForecast == RequestForecast \/ GenerateForecast \/ Tick

SpecForecast == InitForecast /\ [][NextForecast]_vars

\* the expense-forecast section of the i-th invocation
ExpenseForecast(i) == forecasts[i].value.expense_forecast

\* a float that is a number (not nan) and >= 0
NonNegative(x) == ~ x.nan /\ x.v >= 0

\* C13: the forecast engine is a pure function of (snapshot, expense
\* history): invocations with equal inputs return equal results, whatever
\* the time at which they run.
C13_PureFunction ==
    \A i, j \in 1..Len(forecasts) : forecasts[i].value = forecasts[j].value

\* C12: for every expense history and every horizon, the expense forecast's
\* projected_daily_expense is >= 0 and the lower bound of every confidence
\* interval is >= 0.
C12_ExpenseForecastNonNegative ==
    \A i \in 1..Len(forecasts) :
        "error" \notin DOMAIN ExpenseForecast(i) =>
            \A k \in HorizonKeys :
                /\ NonNegative(ExpenseForecast(i)[k].projected_daily_expense)
                /\ \A c \in {"68%", "95%", "99%"} :
                       NonNegative(ExpenseForecast(i)[k]
                                       .confidence_intervals[c].lower)

\* C20: when the history has fewer distinct days than a moving-average
\* window, the moving average falls back to the overall mean of the daily
\* totals, so the projection baseline is a number for every non-empty
\* history: with fewer than 30 days each horizon's projected daily expense
\* is the overall mean grown by 2% a year.
C20_BaselineDefined ==
    \A i \in 1..Len(forecasts) :
        history # << >> =>
            /\ "error" \notin DOMAIN ExpenseForecast(i)
            /\ \A k \in HorizonKeys :
                   /\ ~ ExpenseForecast(i)[k].projected_daily_expense.nan
                   /\ Len(DailyTotals(history)) < 30 =>
                          ExpenseForecast(i)[k].projected_daily_expense =
                              round(Grow(Mean(DailyTotals(history)), 2,
                                         HorizonOf(k)), 2)

\* the collaborator call of a narrative node raised
NarrativeRaised(n) ==
    \E i \in 1..Len(calls) :
        /\ IsNarrative(calls[i])
        /\ NodeOfCall(calls[i]) = n
        /\ calls[i].answer.raises

JobLoss(i) == forecasts[i].value.risk_scenarios.job_loss
EmergencyFund == Get(snapshot, "emergency_fund", 15000) * 100
MonthlyExpense(i) ==
    IF "30_days" \in DOMAIN ExpenseForecast(i)
    THEN ExpenseForecast(i)["30_days"].projected_monthly_expense
    ELSE Fixed(300000)

\* emergency fund / monthly expense to one decimal, for a monthly expense
\* that is a number other than 0
Runway(i) ==
    IF MonthlyExpense(i).v > 0
    THEN Fixed(RoundInt[EmergencyFund, MonthlyExpense(i).v, 1])
    ELSE Fixed(RoundInt[0 - EmergencyFund, 0 - MonthlyExpense(i).v, 1])

CashFlow(i) == forecasts[i].value.cash_flow_forecast
Income == Get(snapshot, "monthly_income", 5000)
Trailing30(i) ==
    SumSeq([j \in 1..Len(history) |->
               IF history[j].date >= forecasts[i].at - 30
               THEN history[j].amount ELSE 0])

\* a / b for fractions of one denominator, b # 0, to two decimals
Quotient2(a, b) ==
    IF b.n > 0 THEN Fixed(RoundInt[a.n, b.n, 2])
    ELSE Fixed(RoundInt[0 - a.n, 0 - b.n, 2])

\* what C17 says of every field but the ratio, for invocation i, horizon h
CashFlowAmounts(i, h) ==
    LET inc == Grow(Rat(Income, 1), 3, h)
        exp == Grow(Rat(Trailing30(i), 1), 2, h)
        flow == Rat(inc.n - exp.n, inc.d)
        g == GCD[h, 30]
        e == CashFlow(i)[HorizonKey(h)]
    IN  /\ e.projected_income = round(inc, 2)
        /\ e.projected_expenses = round(exp, 2)
        /\ e.monthly_cash_flow = round(flow, 2)
        /\ e.cumulative_cash_flow =
               round(Rat((Income - Trailing30(i)) * flow.d * (30 \div g)
                             + flow.n * (h \div g),
                         flow.d * (30 \div g)), 2)

----------------------------------------------------------------------------
(* InvestmentAdvisor.analyze_portfolio: src/ai_core/investment_advisor.py  *)
(* A symbol is the sequence of its characters; holdings is a dict from     *)
(* symbols to holding dicts; a target allocation, whose order matters, is  *)
(* the sequence of its items, with weights in thousandths.                 *)

\* str.upper() on the letters the symbols of the model use
UpperChar(c) ==
    CASE c = "a" -> "A" [] c = "b" -> "B" [] c = "d" -> "D" [] c = "f" -> "F"
      [] c = "g" -> "G" [] c = "n" -> "N" [] c = "r" -> "R" [] c = "v" -> "V"
      [] c = "x" -> "X" [] OTHER -> c

upper(s) == [i \in 1..Len(s) |-> UpperChar(s[i])]

\* t in s, for strings
Contains(t, s) ==
    \E i \in 0..(Len(s) - Len(t)) : SubSeq(s, i + 1, i + Len(t)) = t

BondTickers ==
    { <<"B", "N", "D">>, <<"A", "G", "G">>, <<"L", "Q", "D">>,
      <<"M", "U", "B">>, <<"T", "L", "T">>, <<"S", "H", "Y">> }

CashTickers ==
    { <<"S", "P", "R", "X", "X">>, <<"S", "P", "A", "X", "X">>,
      <<"F", "D", "R", "X", "X">> }

\* _classify_asset
_classify_asset_cash_first(symbol, holding) ==
    LET symbol_upper == upper(symbol)
    IN  IF \E cash \in CashTickers : Contains(cash, symbol_upper)
        THEN "cash"
        ELSE IF \E bond \in BondTickers : Contains(bond, symbol_upper)
        THEN "bonds"
        ELSE "stocks"

_classify_asset(symbol, holding) ==
    LET symbol_upper == upper(symbol)
    IN  IF \E bond \in BondTickers : Contains(bond, symbol_upper)
        THEN "bonds"
        ELSE IF \E cash \in CashTickers : Contains(cash, symbol_upper)
        THEN "cash"
        ELSE "stocks"

\* sum(holding.get("value", 0) for holding in holdings.values())
RECURSIVE SumValues(_, _)
SumValues(holdings, S) ==
    IF S = {} THEN 0
    ELSE LET k == CHOOSE x \in S : TRUE
         IN  Get(holdings[k], "value", 0) + SumValues(holdings, S \ {k})

\* allocation[asset_class] += current_value / total_value for the holdings
\* S of one class, one after the other, from acc on
RECURSIVE WeightOf(_, _, _, _)
WeightOf(holdings, S, total_value, acc) ==
    IF S = {} THEN acc
    ELSE LET Rest(k, sum) == WeightOf(holdings, S \ {k}, total_value, sum)
             Step(k) ==
                 Only({Rest(k, sum) :
                       sum \in {FAdd(acc, FDiv(Get(holdings[k], "value", 0),
                                               total_value))}})
         IN  Only({Step(k) : k \in {CHOOSE x \in S : TRUE}})

\* _calculate_asset_allocation: the weight of a class is the sum of
\* value / total_value over its holdings, in double arithmetic
_calculate_asset_allocation(holdings) ==
    LET total_value == SumValues(holdings, DOMAIN holdings)
        ClassOf(s) == _classify_asset(s, holdings[s])
        classes == {ClassOf(s) : s \in DOMAIN holdings}
    IN  IF total_value = 0 THEN EmptyDict
        ELSE [c \in classes |->
                 WeightOf(holdings, {s \in DOMAIN holdings : ClassOf(s) = c},
                          total_value, Double(FALSE, ZeroMag))]

\* _analyze_sector_exposure: the sample analysis, in hundredths
_analyze_sector_exposure(holdings) ==
    [technology |-> Fixed(25), healthcare |-> Fixed(20),
     financial |-> Fixed(15), consumer_discretionary |-> Fixed(15),
     industrial |-> Fixed(10), other |-> Fixed(15)]

\* _assess_portfolio_risk_level; the score is a whole number
_assess_portfolio_risk_level_inclusive(concentration_risk, diversification_score) ==
    IF \/ concentration_risk.n * 4 >= concentration_risk.d
       \/ diversification_score < 30
    THEN "high"
    ELSE IF \/ concentration_risk.n * 20 > concentration_risk.d * 3
            \/ diversification_score < 60
    THEN "moderate"
    ELSE "low"

_assess_portfolio_risk_level(concentration_risk, diversification_score) ==
    IF \/ concentration_risk.n * 4 > concentration_risk.d
       \/ diversification_score < 30
    THEN "high"
    ELSE IF \/ concentration_risk.n * 20 > concentration_risk.d * 3
            \/ diversification_score < 60
    THEN "moderate"
    ELSE "low"

\* _analyze_portfolio_risk
_analyze_portfolio_risk_ten_holdings(holdings) ==
    LET total_value == SumValues(holdings, DOMAIN holdings)
        largest_holding ==
            CHOOSE v \in {Get(holdings[s], "value", 0) : s \in DOMAIN holdings} :
                \A s \in DOMAIN holdings : v >= Get(holdings[s], "value", 0)
        concentration_risk ==
            IF total_value > 0 THEN Rat(largest_holding, total_value)
            ELSE Rat(0, 1)
        num_holdings == Cardinality(DOMAIN holdings)
        diversification_score == Min(100, num_holdings * 10)
    IN  IF total_value = 0 THEN [error |-> <<"No portfolio value">>]
        ELSE [concentration_risk |-> concentration_risk,
              diversification_score |-> diversification_score,
              num_holdings |-> num_holdings,
              risk_level |->
                  _assess_portfolio_risk_level(concentration_risk,
                                               diversification_score)]

_analyze_portfolio_risk(holdings) ==
    LET total_value == SumValues(holdings, DOMAIN holdings)
        largest_holding ==
            CHOOSE v \in {Get(holdings[s], "value", 0) : s \in DOMAIN holdings} :
                \A s \in DOMAIN holdings : v >= Get(holdings[s], "value", 0)
        concentration_risk ==
            IF total_value > 0 THEN Rat(largest_holding, total_value)
            ELSE Rat(0, 1)
        num_holdings == Cardinality(DOMAIN holdings)
        diversification_score == Min(100, num_holdings * 5)
    IN  IF total_value = 0 THEN [error |-> <<"No portfolio value">>]
        ELSE [concentration_risk |-> concentration_risk,
              diversification_score |-> diversification_score,
              num_holdings |-> num_holdings,
              risk_level |->
                  _assess_portfolio_risk_level(concentration_risk,
                                               diversification_score)]

\* _analyze_portfolio_performance: the sample metrics, in hundredths
_analyze_portfolio_performance(holdings) ==
    [total_return_1y |-> Fixed(8), total_return_3y |-> Fixed(12),
     total_return_5y |-> Fixed(15), volatility |-> Fixed(18),
     sharpe_ratio |-> Fixed(45), max_drawdown |-> Fixed(-12)]

\* _get_rebalancing_recommendations: one item, in the order of
\* target_allocation, for each class whose target differs from the current
\* weight by more than 0.05.  A target is given in thousandths and is the
\* double its decimal literal denotes.
_get_rebalancing_recommendations(current_allocation, target_allocation) ==
    LET Item(t, current_pct, difference) ==
            [asset_class |-> t.asset_class,
             current |-> current_pct,
             target |-> t.target,
             difference |-> difference,
             action |-> IF FPositive(difference) THEN "buy" ELSE "sell",
             priority |-> IF FAbsGreater(difference, FDiv(1, 10))
                          THEN "high" ELSE "medium"]
        Items(t) ==
            Only({IF FAbsGreater(difference, FDiv(5, 100))
                  THEN <<Item(t, current_pct, difference)>> ELSE << >> :
                  current_pct \in
                      {Get(current_allocation, t.asset_class,
                           Double(FALSE, ZeroMag))},
                  difference \in
                      {FSub(FDiv(t.target, 1000),
                            Get(current_allocation, t.asset_class,
                                Double(FALSE, ZeroMag)))}})
        recommendations[i \in 0..Len(target_allocation)] ==
            IF i = 0 THEN << >>
            ELSE recommendations[i - 1] \o Items(target_allocation[i])
    IN  recommendations[Len(target_allocation)]

\* _calculate_portfolio_health_score
_calculate_portfolio_health_score(asset_allocation, risk_analysis, performance_analysis) ==
    LET diversification ==
            IF "diversification_score" \in DOMAIN risk_analysis
            THEN Min(40, (risk_analysis.diversification_score * 4) \div 10)
            ELSE 0
        risk_level == Get(risk_analysis, "risk_level", None)
        risk_management ==
            IF risk_level = "low" THEN 30
            ELSE IF risk_level = "moderate" THEN 20 ELSE 10
        return_1y == Get(performance_analysis, "total_return_1y", Fixed(0))
        performance ==
            IF return_1y.v > 5 THEN 30 ELSE IF return_1y.v > 0 THEN 20 ELSE 10
    IN  Min(100, diversification + risk_management + performance)

\* analyze_portfolio
analyze_portfolio(data) ==
    LET holdings == Get(data, "holdings", EmptyDict)
        asset_allocation == _calculate_asset_allocation(holdings)
        risk_analysis == _analyze_portfolio_risk(holdings)
        performance_analysis == _analyze_portfolio_performance(holdings)
    IN  IF holdings = EmptyDict
        THEN [error |-> <<"No portfolio holdings found">>]
        ELSE [total_value |-> SumValues(holdings, DOMAIN holdings),
              asset_allocation |-> asset_allocation,
              sector_analysis |-> _analyze_sector_exposure(holdings),
              risk_analysis |-> risk_analysis,
              performance_analysis |-> performance_analysis,
              rebalancing_recommendations |->
                  _get_rebalancing_recommendations(
                      asset_allocation,
                      Get(data, "target_allocation", << >>)),
              overall_health_score |->
                  _calculate_portfolio_health_score(
                      asset_allocation, risk_analysis, performance_analysis)]

\* Largest number of holdings of a portfolio
MaxHoldings == 2

\* the symbols holdings are drawn from
HoldingSymbols ==
    { <<"B", "N", "D">>, <<"v", "b", "n", "d", "x">>,
      <<"S", "P", "R", "X", "X">>, <<"f", "d", "r", "x", "x">>,
      <<"A", "G", "G", "S", "P", "A", "X", "X">>,
      <<"A", "A", "P", "L">>, <<"T", "L", "T">>, <<"S", "P", "Y">> }

\* a value is the market value of a position; a short position has a
\* negative one
HoldingValues == {0 - 100, 0, 100, 300}

HoldingSets ==
    UNION { [S -> [value : HoldingValues]] :
              S \in {T \in SUBSET HoldingSymbols : Cardinality(T) <= MaxHoldings} }

TargetAllocations ==
    { << >>,
      << [asset_class |-> "bonds", target |-> 400],
         [asset_class |-> "stocks", target |-> 500],
         [asset_class |-> "cash", target |-> 100] >>,
      << [asset_class |-> "stocks", target |-> 800],
         [asset_class |-> "bonds", target |-> 200] >> }

\* Largest number of holdings of a portfolio of two-letter stock symbols
MaxFunds == 21

\* the i-th of 25 two-letter symbols; none contains a bond or cash ticker
FundSymbol(i) ==
    LET Letters == <<"C", "E", "H", "K", "O">>
    IN  <<Letters[((i - 1) \div 5) + 1], Letters[((i - 1) % 5) + 1]>>

\* the value of the first holding and the value of each of the others
FundValues ==
    { <<100, 100>>, <<200, 100>>, <<201, 100>>, <<33, 17>>, <<34, 17>>,
      <<57, 17>>, <<0, 0>>, <<0 - 100, 0 - 100>>, <<300, 0 - 100>> }

FundSets ==
    { [s \in {FundSymbol(i) : i \in 1..n} |->
          [value |-> IF s = FundSymbol(1) THEN v[1] ELSE v[2]]] :
      n \in 3..MaxFunds, v \in FundValues }

PortfolioDatas ==
    {EmptyDict} \cup
    [holdings : HoldingSets \cup FundSets,
     target_allocation : TargetAllocations]

InitAnalysis ==
    /\ Init
    /\ config = [yahoo_enabled |-> TRUE, alpha_vantage_key |-> ""]

RequestAnalysis ==
    /\ apc = "idle"
    /\ \E d \in PortfolioDatas : portfolio_data' = d
    /\ apc' = "requested"
    /\ UNCHANGED <<analysis, trendvars, pipevars, stratvars, forecastvars>>

AnalyzePortfolio ==
    /\ apc = "requested"
    /\ analysis' = analyze_portfolio(portfolio_data)
    /\ apc' = "returned"
    /\ UNCHANGED <<portfolio_data, trendvars, pipevars, stratvars,
                   forecastvars>>

NextAnalysis == RequestAnalysis \/ AnalyzePortfolio

SpecAnalysis == InitAnalysis /\ [][NextAnalysis]_vars

\* C15: a holding is "bonds" when its upper-cased symbol contains one of the
\* bond tickers, otherwise "cash" when it contains one of the cash tickers,
\* otherwise "stocks": BND, vbndx, TLT and AGGSPAXX (the bond test comes
\* first) are bonds, SPRXX and fdrxx are cash, AAPL and SPY are stocks, and
\* the allocation analyze_portfolio returns weighs the classes accordingly.
C15_Classification ==
    LET Bonds == { <<"B", "N", "D">>, <<"v", "b", "n", "d", "x">>,
                   <<"T", "L", "T">>,
                   <<"A", "G", "G", "S", "P", "A", "X", "X">> }
        Cash == { <<"S", "P", "R", "X", "X">>, <<"f", "d", "r", "x", "x">> }
        Expected(s) == IF s \in Bonds THEN "bonds"
                       ELSE IF s \in Cash THEN "cash" ELSE "stocks"
    IN  (apc = "returned" /\ "asset_allocation" \in DOMAIN analysis) =>
            LET holdings == portfolio_data.holdings
                alloc == analysis.asset_allocation
            IN  /\ \A s \in DOMAIN holdings :
                       _classify_asset(s, holdings[s]) = Expected(s)
                /\ analysis.total_value > 0 =>
                       /\ DOMAIN alloc = {Expected(s) : s \in DOMAIN holdings}
                       /\ \A c \in DOMAIN alloc :
                              alloc[c] =
                                  WeightOf(holdings,
                                           {s \in DOMAIN holdings :
                                                Expected(s) = c},
                                           analysis.total_value,
                                           Double(FALSE, ZeroMag))

\* a portfolio of a symbol that contains a bond and a cash ticker and of a
\* lower-case cash symbol
C15_Witness ==
    /\ apc = "returned"
    /\ "asset_allocation" \in DOMAIN analysis
    /\ DOMAIN portfolio_data.holdings =
           { <<"A", "G", "G", "S", "P", "A", "X", "X">>,
             <<"f", "d", "r", "x", "x">> }
    /\ DOMAIN analysis.asset_allocation = {"bonds", "cash"}
    /\ analysis.asset_allocation.bonds = FDiv(300, 400)

\* the arguments get_investment_strategy passes to _determine_base_strategy
\* for the profile of the request
BaseStrategy ==
    _determine_base_strategy(
        Get(profile, "risk_tolerance", "moderate"),
        Get(profile, "age", 35),
        Get(profile, "investment_horizon", "10+ years"))

\* C18: the archetype is "growth" if age < 30 and the horizon contains
\* "long"; otherwise "conservative" if age > 60 or the horizon contains
\* "short"; otherwise the stated risk tolerance; the first rule wins over
\* the second, and the allocation is the 60/30/10, 40/50/10, 20/70/10 or
\* 10/80/10 bonds/stocks/cash split of the selected archetype.
C18_BaseStrategySelection ==
    spc # "idle" =>
        LET risk_tolerance == Get(profile, "risk_tolerance", "moderate")
            age == Get(profile, "age", 35)
            horizon == Get(profile, "investment_horizon", "10+ years")
            long == horizon \in {"Long-term", "long, then short"}
            short == horizon \in {"short-term", "long, then short"}
            archetype == IF age < 30 /\ long THEN "growth"
                         ELSE IF age > 60 \/ short THEN "conservative"
                         ELSE risk_tolerance
            Split(b, s, c) ==
                /\ BaseStrategy.allocation.bonds = Num(b)
                /\ BaseStrategy.allocation.stocks = Num(s)
                /\ BaseStrategy.allocation.cash = Num(c)
        IN  /\ BaseStrategy.name = archetype
            /\ archetype = "conservative" => Split(600, 300, 100)
            /\ archetype = "moderate" => Split(400, 500, 100)
            /\ archetype = "aggressive" => Split(200, 700, 100)
            /\ archetype = "growth" => Split(100, 800, 100)

\* a conservative 25-year-old whose horizon contains "long" and "short"
C18_Witness ==
    /\ spc = "returned"
    /\ profile # EmptyDict
    /\ profile.risk_tolerance = "conservative"
    /\ profile.age = 25
    /\ profile.investment_horizon = "long, then short"
    /\ BaseStrategy.name = "growth"
    /\ BaseStrategy.allocation.stocks = Num(800)

\* C19: goal customization applies the retirement adjustment (bonds x1.2
\* capped at 0.8, stocks x0.8 floored at 0.1), then education (bonds x1.1
\* capped at 0.7, cash x1.5 capped at 0.2), then emergency_fund (cash x1.5
\* capped at 0.25, stocks x0.9 floored at 0.05), each only if its tag is among
\* the goals, then divides every weight by the new sum; only the set of
\* tags present matters.
C19_GoalCustomization ==
    spc = "returned" =>
        LET tags == Range(Get(profile, "financial_goals", << >>))
            customized ==
                _customize_for_goals(BaseStrategy,
                                     Get(profile, "financial_goals", << >>))
            b0 == BaseStrategy.allocation.bonds.v
            s0 == BaseStrategy.allocation.stocks.v
            c0 == BaseStrategy.allocation.cash.v
            b1 == IF "retirement" \in tags
                  THEN Min(800, (b0 * 12) \div 10) ELSE b0
            s1 == IF "retirement" \in tags
                  THEN Max(100, (s0 * 8) \div 10) ELSE s0
            b2 == IF "education" \in tags
                  THEN Min(700, (b1 * 11) \div 10) ELSE b1
            c2 == IF "education" \in tags
                  THEN Min(200, (c0 * 15) \div 10) ELSE c0
            c3 == IF "emergency_fund" \in tags
                  THEN Min(250, (c2 * 15) \div 10) ELSE c2
            s3 == IF "emergency_fund" \in tags
                  THEN Max(50, (s1 * 9) \div 10) ELSE s1
        IN  /\ ~ customized.raises
            /\ customized.value.allocation =
                   [bonds |-> Ratio(b2, b2 + s3 + c3),
                    stocks |-> Ratio(s3, b2 + s3 + c3),
                    cash |-> Ratio(c3, b2 + s3 + c3)]

\* the values of the holdings of the request, and what the code derives
\* from them
HoldingValue(s) == Get(portfolio_data.holdings[s], "value", 0)

TotalValue == SumValues(portfolio_data.holdings, DOMAIN portfolio_data.holdings)

LargestValue ==
    CHOOSE v \in {HoldingValue(s) : s \in DOMAIN portfolio_data.holdings} :
        \A s \in DOMAIN portfolio_data.holdings : v >= HoldingValue(s)

HoldingsCount == Cardinality(DOMAIN portfolio_data.holdings)

RiskAnalysed == apc = "returned" /\ "risk_analysis" \in DOMAIN analysis

\* the composite level the claim gives for a concentration of num/den
\* (den > 0) and a diversification score
StatedLevel(num, den, score) ==
    IF num * 4 > den \/ score < 30 THEN "high"
    ELSE IF num * 20 > den * 3 \/ score < 60 THEN "moderate"
    ELSE "low"

\* C21 as stated: every risk analysis reports concentration = largest
\* holding / total value, diversification = min(100, count/20 x 100) and one
\* of the three levels by the stated thresholds.
C21_RiskAsStated ==
    RiskAnalysed =>
        /\ "risk_level" \in DOMAIN analysis.risk_analysis
        /\ TotalValue # 0
        /\ analysis.risk_analysis.concentration_risk =
               Rat(LargestValue, TotalValue)
        /\ analysis.risk_analysis.risk_level \in {"high", "moderate", "low"}

\* C21 (amended): for a total value > 0 the concentration is largest
\* holding / total value, for a total value < 0 it is 0, the diversification
\* score is min(100, count/20 x 100), and the level is "high" if
\* concentration > 0.25 or diversification < 30, else "moderate" if
\* concentration > 0.15 or diversification < 60, else "low", the boundary
\* values falling on the lower-risk side; for a total value of 0 the risk
\* analysis is the error marker "No portfolio value" and carries no level.
C21_RiskAnalysis ==
    RiskAnalysed =>
        LET risk == analysis.risk_analysis
            score == IF HoldingsCount >= 20 THEN 100 ELSE HoldingsCount * 5
        IN  IF TotalValue = 0
            THEN risk = [error |-> <<"No portfolio value">>]
            ELSE /\ DOMAIN risk = {"concentration_risk", "diversification_score",
                                   "num_holdings", "risk_level"}
                 /\ risk.concentration_risk =
                        (IF TotalValue > 0 THEN Rat(LargestValue, TotalValue)
                         ELSE Rat(0, 1))
                 /\ risk.diversification_score = score
                 /\ risk.num_holdings = HoldingsCount
                 /\ risk.risk_level =
                        (IF TotalValue > 0
                         THEN StatedLevel(LargestValue, TotalValue, score)
                         ELSE StatedLevel(0, 1, score))
                 /\ (TotalValue > 0 /\ LargestValue * 4 = TotalValue
                         /\ score >= 30) => risk.risk_level = "moderate"
                 /\ (TotalValue > 0 /\ LargestValue * 20 = TotalValue * 3
                         /\ score >= 60) => risk.risk_level = "low"
                 /\ (score = 30 /\ TotalValue > 0
                         /\ LargestValue * 4 <= TotalValue) =>
                        risk.risk_level = "moderate"
                 /\ (score = 60 /\ TotalValue > 0
                         /\ LargestValue * 20 <= TotalValue * 3) =>
                        risk.risk_level = "low"

\* seven holdings, the largest exactly a quarter of the total: moderate
C21_Witness ==
    /\ RiskAnalysed
    /\ HoldingsCount = 7
    /\ TotalValue = 800
    /\ LargestValue = 200
    /\ analysis.risk_analysis.diversification_score = 35
    /\ analysis.risk_analysis.risk_level = "moderate"


\* the holdings of one asset class
ClassHoldings(c) ==
    {s \in DOMAIN portfolio_data.holdings :
         _classify_asset(s, portfolio_data.holdings[s]) = c}

\* target - current of a target item as the fraction n/d of whole numbers,
\* d > 0: the target is t.target thousandths, the current weight is the value
\* of the holdings of the class over the total value, and 0 when the
\* allocation is empty
Gap(t) ==
    LET total == TotalValue
        value == SumValues(portfolio_data.holdings, ClassHoldings(t.asset_class))
        num == IF total < 0 THEN 0 - value ELSE value
        den == IF total < 0 THEN 0 - total ELSE total
    IN  IF total = 0 THEN Rat(t.target, 1000)
        ELSE Rat(t.target * den - 1000 * num, 1000 * den)

\* the recommendations for one asset class
ItemsFor(c) ==
    LET recs == analysis.rebalancing_recommendations
    IN  {i \in 1..Len(recs) : recs[i].asset_class = c}

\* C22: analyze_portfolio returns a rebalancing recommendation for an asset
\* class of the target allocation exactly when the target weight and the
\* current weight of the class (0 when the class has no weight) differ by
\* more than 0.05; its priority is "high" iff they differ by more than 0.10
\* and otherwise "medium", its action is "buy" iff the target is above the
\* current weight and otherwise "sell", and no class has two recommendations.
C22_Rebalancing ==
    (apc = "returned" /\ "rebalancing_recommendations" \in DOMAIN analysis) =>
        LET recs == analysis.rebalancing_recommendations
            target_allocation == Get(portfolio_data, "target_allocation", << >>)
        IN  /\ \A i \in 1..Len(recs) :
                   \E j \in 1..Len(target_allocation) :
                       target_allocation[j].asset_class = recs[i].asset_class
            /\ \A j \in 1..Len(target_allocation) :
                   LET t == target_allocation[j]
                       g == Gap(t)
                       items == ItemsFor(t.asset_class)
                   IN  /\ Cardinality(items) <= 1
                       /\ (items # {}) <=> (Abs(g.n) * 20 > g.d)
                       /\ \A i \in items :
                              /\ recs[i].priority =
                                     IF Abs(g.n) * 10 > g.d
                                     THEN "high" ELSE "medium"
                              /\ recs[i].action =
                                     IF g.n > 0 THEN "buy" ELSE "sell"


\* the forecast the i-th invocation returned, and its recommendation list
Forecast(i) == forecasts[i].value
Recommendations(i) == Forecast(i).recommendations

\* the horizons of a section whose field is below a bound (none when the
\* section is an error dict), and the stress scenarios tagged "high"
HorizonsBelow(section, field, bound) ==
    {k \in HorizonKeys \cap DOMAIN section : section[k][field].v < bound}

HighScenarios(i) ==
    {n \in StressNames \cap DOMAIN Forecast(i).risk_scenarios :
         Forecast(i).risk_scenarios[n].risk_level = "high"}

\* the items j of a list whose category is c
ItemsOf(recs, c) ==
    {j \in 1..Len(recs) : "category" \in DOMAIN recs[j] /\ recs[j].category = c}

\* C23: the recommendation list of a forecast holds one high-priority
\* "Improve Cash Flow" item for each horizon whose cash-flow ratio is below
\* 0.20, one medium-priority "Accelerate Net Worth Growth" item for each
\* horizon whose growth rate is below 5, and one high-priority item for each
\* stress scenario tagged "high", whose action is the first mitigation
\* strategy of the scenario; it holds nothing else, and the cash-flow items
\* come first and the stress items last.
C23_RecommendationSynthesis ==
    \A i \in 1..Len(forecasts) :
        LET f == Forecast(i)
            recs == Recommendations(i)
            cash == HorizonsBelow(f.cash_flow_forecast, "cash_flow_ratio", 20)
            worth == HorizonsBelow(f.net_worth_projection, "growth_rate", 500)
            high == HighScenarios(i)
            Subject(j) == recs[j].description[Len(recs[j].description)]
        IN  /\ \A j \in 1..Len(recs) :
                   /\ "category" \in DOMAIN recs[j]
                   /\ recs[j].category \in
                          {"cash_flow", "net_worth", "risk_management"}
            /\ \A k \in cash :
                   Cardinality({j \in ItemsOf(recs, "cash_flow") :
                                    Subject(j) = k}) = 1
            /\ \A k \in worth :
                   Cardinality({j \in ItemsOf(recs, "net_worth") :
                                    Subject(j) = k}) = 1
            /\ \A n \in high :
                   Cardinality({j \in ItemsOf(recs, "risk_management") :
                                    Subject(j) = n}) = 1
            /\ \A j \in ItemsOf(recs, "cash_flow") :
                   /\ Subject(j) \in cash
                   /\ recs[j].priority = "high"
                   /\ recs[j].title = "Improve Cash Flow"
            /\ \A j \in ItemsOf(recs, "net_worth") :
                   /\ Subject(j) \in worth
                   /\ recs[j].priority = "medium"
                   /\ recs[j].title = "Accelerate Net Worth Growth"
            /\ \A j \in ItemsOf(recs, "risk_management") :
                   /\ Subject(j) \in high
                   /\ recs[j].priority = "high"
                   /\ recs[j].action =
                          f.risk_scenarios[Subject(j)].mitigation_strategies[1]
            /\ \A j1, j2 \in 1..Len(recs) :
                   \/ j1 >= j2
                   \/ recs[j1].category = recs[j2].category
                   \/ recs[j1].category = "cash_flow"
                   \/ recs[j2].category = "risk_management"


----------------------------------------------------------------------------
(* ExpenseTracker._calculate_overall_trend: src/ai_core/expense_tracker.py *)
(* The DataFrame is the sequence of its rows, one per expense record; the  *)
(* rows of the model have distinct dates.                                  *)

\* df.sort_values('date')['amount']
SortedAmounts(frame) ==
    [j \in 1..Len(frame) |->
        frame[CHOOSE i \in 1..Len(frame) :
                  Cardinality({k \in 1..Len(frame) :
                                   frame[k].date < frame[i].date}) = j - 1]
            .amount]

\* _calculate_overall_trend
_calculate_overall_trend(frame) ==
    LET Trend(amount, latest_7d, latest_30d) ==
            IF latest_7d.nan \/ latest_30d.nan
            THEN [trend |-> "insufficient_data"]
            ELSE [trend |->
                      IF latest_7d.n * latest_30d.d * 10
                             > latest_30d.n * latest_7d.d * 11
                      THEN "accelerating"
                      ELSE IF latest_7d.n * latest_30d.d * 10
                                  < latest_30d.n * latest_7d.d * 9
                      THEN "decelerating"
                      ELSE "stable",
                  short_term_avg |-> latest_7d,
                  long_term_avg |-> latest_30d,
                  volatility |-> Std(amount)]
    IN  IF Len(frame) < 7 THEN [trend |-> "insufficient_data"]
        ELSE Only({Trend(amount, RollingMeanLast(amount, 7),
                         RollingMeanLast(amount, 30)) :
                   amount \in {SortedAmounts(frame)}})

\* Largest number of expense records of a DataFrame
MaxRecords == 31

\* n expenses on n consecutive days ending today, newest first: recent
\* dollars on each of the latest seven days, earlier dollars before
Spending(n, recent, earlier) ==
    [i \in 1..n |->
        Expense(i, IF i <= 7 THEN recent ELSE earlier, "Food & Dining",
                Today + 1 - i)]

\* the spending of the latest week and of the weeks before; 253 is 1.1 times
\* and 69 is 0.9 times the 30-day average that goes with it
SpendingLevels ==
    { <<10, 10>>, <<253, 223>>, <<254, 223>>, <<69, 79>>, <<68, 79>>,
      <<50, 10>>, <<10, 50>> }

Frames ==
    {Spending(n, l[1], l[2]) : n \in 0..MaxRecords, l \in SpendingLevels}

InitTrend ==
    /\ Init
    /\ config = [yahoo_enabled |-> TRUE, alpha_vantage_key |-> ""]

RequestTrend ==
    /\ tpc = "idle"
    /\ \E frame \in Frames : df' = frame
    /\ tpc' = "requested"
    /\ UNCHANGED <<overall_trend, apc, portfolio_data, analysis, pipevars,
                   stratvars, forecastvars>>

CalculateOverallTrend ==
    /\ tpc = "requested"
    /\ overall_trend' = _calculate_overall_trend(df)
    /\ tpc' = "returned"
    /\ UNCHANGED <<df, apc, portfolio_data, analysis, pipevars, stratvars,
                   forecastvars>>

NextTrend == RequestTrend \/ CalculateOverallTrend

SpecTrend == InitTrend /\ [][NextTrend]_vars

\* the sum of the amounts of the latest n records
LatestSum(n) ==
    SumSeq([i \in 1..Len(df) |->
               IF Cardinality({k \in 1..Len(df) : df[k].date > df[i].date}) < n
               THEN df[i].amount ELSE 0])

\* C24: the overall trend is "insufficient_data" for fewer than 7 expense
\* records; for 7 or more it is "accelerating", "decelerating" or "stable",
\* and where the 30-record average exists it is "accelerating" if the
\* average of the latest 7 records is above 1.1 times the average of the
\* latest 30, "decelerating" if it is below 0.9 times, otherwise "stable".
C24_OverallTrend ==
    tpc = "returned" =>
        IF Len(df) < 7 THEN overall_trend.trend = "insufficient_data"
        ELSE /\ overall_trend.trend \in
                    {"accelerating", "decelerating", "stable"}
             /\ Len(df) >= 30 =>
                    overall_trend.trend =
                        IF LatestSum(7) * 300 > LatestSum(30) * 77
                        THEN "accelerating"
                        ELSE IF LatestSum(7) * 300 < LatestSum(30) * 63
                        THEN "decelerating"
                        ELSE "stable"


\* C25, in each state of a run: state.error is non-empty exactly when a
\* stage has failed, and the envelope says success exactly when none has.
C25_ErrorState ==
    /\ "error" \in DOMAIN state => (Truthy(state.error) <=> raised # << >>)
    /\ pc = "done" => (envelope.success <=> raised = << >>)

\* C25, in each step of a run: state.error starts empty, is never emptied,
\* and changes only in a step in which a stage fails.
C25_ErrorStep ==
    /\ ("error" \notin DOMAIN state /\ "error" \in DOMAIN state') =>
           state'.error = EmptyStr
    /\ "error" \in DOMAIN state =>
           /\ "error" \in DOMAIN state'
           /\ Truthy(state.error) => Truthy(state'.error)
           /\ state'.error # state.error => Len(raised') = Len(raised) + 1

\* C25: state.error is monotone within a run: it starts empty, only a
\* failing stage writes it and no stage resets it to empty, so once a stage
\* has failed it is non-empty in every later state, and the final envelope
\* has success true if and only if none of the five stages raised.
C25_ErrorMonotone == [] C25_ErrorState /\ [][C25_ErrorStep]_vars

\* the first stage failed, the four later stages ran without failing, and
\* the run ended in the failure envelope with the first stage's message
C25_Witness ==
    /\ pc = "done"
    /\ Len(trace) = 5
    /\ Len(raised) = 1
    /\ raised[1].node = "collect_financial_data"
    /\ Truthy(state.error)
    /\ state.investment_advice # ""
    /\ envelope.success = FALSE


\* the last piece of the description of item j: the horizon or the scenario
\* the item is about
SubjectOf(recs, j) == recs[j].description[Len(recs[j].description)]

\* C26: whenever a forecast has its stress-scenario section, the market-crash
\* scenario is tagged "high" and the recommendation list is non-empty: it
\* holds a high-priority risk-management item for market_crash whose action
\* is "Maintain emergency fund".
C26_MarketCrashRecommended ==
    \A i \in 1..Len(forecasts) :
        LET f == Forecast(i)
            recs == Recommendations(i)
        IN  ("risk_scenarios" \in DOMAIN f
               /\ "market_crash" \in DOMAIN f.risk_scenarios) =>
                /\ f.risk_scenarios.market_crash.risk_level = "high"
                /\ recs # << >>
                /\ \E j \in ItemsOf(recs, "risk_management") :
                       /\ SubjectOf(recs, j) = "market_crash"
                       /\ recs[j].priority = "high"
                       /\ recs[j].action = "Maintain emergency fund"

\* a section that is an error dict instead of per-horizon results
IsErrorMarker(section) == "error" \in DOMAIN section

\* C27: when the cash-flow section or the net-worth section of a forecast is
\* an error dict, the recommendation list still holds the items that follow
\* from the other sections: an item for each horizon of the section that was
\* produced whose value is below its bound, and a high-priority item for
\* each stress scenario tagged "high".
C27_FailureIsolation ==
    \A i \in 1..Len(forecasts) :
        LET f == Forecast(i)
            recs == Recommendations(i)
        IN  (/\ "risk_scenarios" \in DOMAIN f
             /\ ~ IsErrorMarker(f.risk_scenarios)
             /\ \/ IsErrorMarker(f.cash_flow_forecast)
                \/ IsErrorMarker(f.net_worth_projection)) =>
                /\ \A n \in HighScenarios(i) :
                       \E j \in ItemsOf(recs, "risk_management") :
                           /\ SubjectOf(recs, j) = n
                           /\ recs[j].priority = "high"
                /\ \A k \in HorizonsBelow(f.cash_flow_forecast,
                                          "cash_flow_ratio", 20) :
                       \E j \in ItemsOf(recs, "cash_flow") :
                           SubjectOf(recs, j) = k
                /\ \A k \in HorizonsBelow(f.net_worth_projection,
                                          "growth_rate", 500) :
                       \E j \in ItemsOf(recs, "net_worth") :
                           SubjectOf(recs, j) = k


\* the portfolio value generate_forecast was given
PortfolioValue ==
    Get(Get(snapshot, "portfolio", EmptyDict), "total_value", 50000)

\* C28: for a snapshot whose portfolio is worth 0 the investment-return
\* section is an error dict and reports no scenario, while the forecast has
\* no top-level error and still has its cash-flow, net-worth and
\* stress-scenario results and the expense section of the history.
C28_ZeroPortfolio ==
    \A i \in 1..Len(forecasts) :
        PortfolioValue = 0 =>
            LET f == Forecast(i)
            IN  /\ "error" \notin DOMAIN f
                /\ {"cash_flow_forecast", "net_worth_projection",
                    "expense_forecast", "investment_returns",
                    "risk_scenarios"} \subseteq DOMAIN f
                /\ DOMAIN f.investment_returns = {"error"}
                /\ f.investment_returns.error[1] =
                       "Error projecting investment returns: "
                /\ DOMAIN f.cash_flow_forecast = HorizonKeys
                /\ DOMAIN f.net_worth_projection = HorizonKeys
                /\ DOMAIN f.risk_scenarios = StressNames
                /\ f.expense_forecast = _forecast_expenses(history)

\* a forecast for a portfolio worth 0 and a history of expenses
C28_Witness ==
    /\ fpc = "returned"
    /\ PortfolioValue = 0
    /\ history # << >>
    /\ IsErrorMarker(Forecast(1).investment_returns)
    /\ ~ IsErrorMarker(Forecast(1).expense_forecast)
    /\ Forecast(1).net_worth_projection["30_days"].projected_portfolio.v
           = Forecast(1).cash_flow_forecast["30_days"].monthly_cash_flow.v


\* C29: for holdings of positive total value and no negative value the
\* composite risk level is "high" whenever there are fewer than 6 holdings,
\* and it is "low" only if there are at least 12 holdings and no holding is
\* more than 15% of the total value.
C29_RiskBounds ==
    (/\ RiskAnalysed
     /\ TotalValue > 0
     /\ \A s \in DOMAIN portfolio_data.holdings : HoldingValue(s) >= 0) =>
        /\ "risk_level" \in DOMAIN analysis.risk_analysis
        /\ HoldingsCount < 6 => analysis.risk_analysis.risk_level = "high"
        /\ analysis.risk_analysis.risk_level = "low" =>
               /\ HoldingsCount >= 12
               /\ \A s \in DOMAIN portfolio_data.holdings :
                      HoldingValue(s) * 100 <= 15 * TotalValue

\* five equal holdings, each a fifth of the total: the level is "high" for
\* the number of holdings alone
C29_Witness ==
    /\ RiskAnalysed
    /\ HoldingsCount = 5
    /\ TotalValue = 500
    /\ \A s \in DOMAIN portfolio_data.holdings : HoldingValue(s) = 100
    /\ analysis.risk_analysis.concentration_risk = Rat(100, 500)
    /\ analysis.risk_analysis.risk_level = "high"


====
